---- MODULE Spec2Model ----
(***************************************************************************)
(* A model of mrs.py: the MRS archive engine (class mrs), its header       *)
(* codecs, the DOS timestamp codec, the file-name validator and the        *)
(* duplicate-name resolver.                                                *)
(*                                                                         *)
(* Text is a sequence of characters; a character is a one-symbol string    *)
(* ("a", ".", "\\"), except that the control characters and the            *)
(* superscript digits have a mnemonic ("SOH", "^1").  Bytes are 0..255.    *)
(* 32-bit header fields whose value may exceed 2^31 (signatures, CRC-32)   *)
(* are kept as their four little-endian bytes.                             *)
(***************************************************************************)
EXTENDS Integers, Sequences, FiniteSets, TLC

VARIABLES
    files,      \* mrs.__files: the entries, in order
    hdr,        \* mrs.__hdr: the base header counters
    mem,        \* mrs.__mem: the bytes of the temporary content store
    mempos,     \* the file position of mrs.__mem
    decrypt,    \* mrs.__decrypt: the four decryption hook slots
    sigcheck,   \* mrs.__sigcheck: the custom signature validator, or None
    orig,       \* history: for each entry, who created it and its content
    last,       \* history: the last call, its arguments and its outcome
    calls,      \* history: the number of calls made so far
    probe,      \* input and output of the pure function under test
    orphans     \* history: the store positions (from 1) that failed merges wrote

vars == <<files, hdr, mem, mempos, decrypt, sigcheck, orig, last, calls, probe, orphans>>

None == "None"

\* None where the code expects a str, a bytes or a tuple: the empty sequence
\* (no call of the model passes or stores an empty one of these)
Absent == <<>>

(***************************************************************************)
(* Sequence helpers.                                                       *)
(***************************************************************************)
Take(s, n) == SubSeq(s, 1, IF n < Len(s) THEN n ELSE Len(s))

Drop(s, n) == SubSeq(s, n + 1, Len(s))

RECURSIVE SeqsUpTo(_, _)
\* all sequences over S of length at most n
SeqsUpTo(S, n) ==
    IF n = 0 THEN {<<>>}
    ELSE LET shorter == SeqsUpTo(S, n - 1)
         IN  shorter \cup {Append(s, x) : s \in {t \in shorter : Len(t) = n - 1}, x \in S}

(***************************************************************************)
(* Characters: ord(), chr() and str.upper()/str.lower() on the characters  *)
(* the model uses.                                                         *)
(***************************************************************************)
CharTable ==
    <<  <<"SOH", 1>>, <<"US", 31>>, <<" ", 32>>, <<"\"", 34>>, <<"(", 40>>,
        <<")", 41>>, <<"*", 42>>, <<".", 46>>, <<"/", 47>>,
        <<"0", 48>>, <<"1", 49>>, <<"2", 50>>, <<"3", 51>>, <<"4", 52>>,
        <<"5", 53>>, <<"6", 54>>, <<"7", 55>>, <<"8", 56>>, <<"9", 57>>,
        <<":", 58>>, <<"<", 60>>, <<">", 62>>, <<"?", 63>>,
        <<"A", 65>>, <<"B", 66>>, <<"C", 67>>, <<"L", 76>>, <<"M", 77>>,
        <<"N", 78>>, <<"O", 79>>, <<"P", 80>>, <<"S", 83>>, <<"T", 84>>,
        <<"U", 85>>, <<"X", 88>>, <<"\\", 92>>,
        <<"a", 97>>, <<"b", 98>>, <<"c", 99>>, <<"l", 108>>, <<"m", 109>>,
        <<"n", 110>>, <<"o", 111>>, <<"p", 112>>, <<"s", 115>>, <<"t", 116>>,
        <<"u", 117>>, <<"x", 120>>, <<"|", 124>>, <<"DEL", 127>>,
        <<"^2", 178>>, <<"^3", 179>>, <<"^1", 185>>  >>

Chars == {CharTable[i][1] : i \in 1..Len(CharTable)}

\* ord(c)
Ord(c) == CharTable[CHOOSE i \in 1..Len(CharTable) : CharTable[i][1] = c][2]

\* chr(n), for the code points of the table
Chr(n) == CharTable[CHOOSE i \in 1..Len(CharTable) : CharTable[i][2] = n][1]

HasChr(n) == \E i \in 1..Len(CharTable) : CharTable[i][2] = n

\* str.upper() and str.lower() of one character: only a-z / A-Z have a case
\* among the characters of the table
UpperChar(c) ==
    IF Ord(c) \in 97..122 /\ HasChr(Ord(c) - 32) THEN Chr(Ord(c) - 32) ELSE c

LowerChar(c) ==
    IF Ord(c) \in 65..90 /\ HasChr(Ord(c) + 32) THEN Chr(Ord(c) + 32) ELSE c

Upper(s) == [i \in 1..Len(s) |-> UpperChar(s[i])]

Lower(s) == [i \in 1..Len(s) |-> LowerChar(s[i])]

(***************************************************************************)
(* _is_valid_filename                                                      *)
(***************************************************************************)
invalid_names ==
    {   <<".">>, <<".", ".">>,
        <<"C","O","N">>, <<"P","R","N">>, <<"A","U","X">>, <<"N","U","L">>,
        <<"C","O","M","0">>, <<"C","O","M","1">>, <<"C","O","M","2">>,
        <<"C","O","M","3">>, <<"C","O","M","4">>, <<"C","O","M","5">>,
        <<"C","O","M","6">>, <<"C","O","M","7">>, <<"C","O","M","8">>,
        <<"C","O","M","9">>, <<"C","O","M","^1">>, <<"C","O","M","^2">>,
        <<"C","O","M","^3">>,
        <<"L","P","T","0">>, <<"L","P","T","1">>, <<"L","P","T","2">>,
        <<"L","P","T","3">>, <<"L","P","T","4">>, <<"L","P","T","5">>,
        <<"L","P","T","6">>, <<"L","P","T","7">>, <<"L","P","T","8">>,
        <<"L","P","T","9">>, <<"L","P","T","^1">>, <<"L","P","T","^2">>,
        <<"L","P","T","^3">>  }

\* the seven punctuation characters, then chr(i) for i in range(1, 32)
invalid_chars ==
    {"<", ">", ":", "\"", "|", "?", "*"} \cup {c \in Chars : Ord(c) \in 1..31}

\* str.rfind(c) + 1: the last position of c in s, 0 when absent
RFind(s, c) ==
    IF \E i \in 1..Len(s) : s[i] = c
    THEN CHOOSE i \in 1..Len(s) : s[i] = c /\ \A j \in (i+1)..Len(s) : s[j] # c
    ELSE 0

\* f.split('\\'): the maximal backslash-free pieces of f, in order
RECURSIVE SplitBackslash(_)
SplitBackslash(f) ==
    IF \E i \in 1..Len(f) : f[i] = "\\"
    THEN LET k == CHOOSE i \in 1..Len(f) : f[i] = "\\" /\ \A j \in 1..(i-1) : f[j] # "\\"
         IN  <<SubSeq(f, 1, k - 1)>> \o SplitBackslash(Drop(f, k))
    ELSE <<f>>

\* a splitext that cuts at the last dot wherever it lies
SplitextAtLastDot(p) ==
    IF RFind(p, ".") > 0 THEN SubSeq(p, 1, RFind(p, ".") - 1) ELSE p

\* os.path.splitext(p)[0]: p up to its last dot, when that dot lies after the
\* last '/' and some character between the two is not a dot; else p
SplitextRoot(p) ==
    LET sepIndex == RFind(p, "/")
        dotIndex == RFind(p, ".")
    IN  IF dotIndex > sepIndex
           /\ \E k \in (sepIndex + 1)..(dotIndex - 1) : p[k] # "."
        THEN SubSeq(p, 1, dotIndex - 1)
        ELSE p

\* TRUE iff _is_valid_filename(f) returns, FALSE iff it raises UnicodeError
IsValidFilename(f) ==
    /\ ~ \E i \in invalid_chars : \E k \in 1..Len(f) : f[k] = i
    /\ LET dirs == SplitBackslash(f)
       IN  \A d \in 1..Len(dirs) : Upper(SplitextRoot(dirs[d])) \notin invalid_names

(***************************************************************************)
(* mrs.__is_duplicate: the name pattern                                    *)
(*   (?P<fname>.+?)(?:\s\((?P<fnum>\d+)\)|)(?P<fext>\.[^.]+?|)$            *)
(* and the search for an exact match and a free number.                    *)
(***************************************************************************)
IsDigit(c) == Ord(c) \in 48..57

\* \s of a str pattern
IsSpace(c) == Ord(c) \in (9..13) \cup (28..32)

RECURSIVE DigitsToInt(_)
\* int(s) of a string of decimal digits
DigitsToInt(s) ==
    IF s = <<>> THEN 0
    ELSE 10 * DigitsToInt(SubSeq(s, 1, Len(s) - 1)) + (Ord(s[Len(s)]) - 48)

RECURSIVE IntToDigits(_)
\* str(n) for n >= 0, as f'{fnum}' formats it
IntToDigits(n) ==
    IF n < 10 THEN <<Chr(48 + n)>>
    ELSE Append(IntToDigits(n \div 10), Chr(48 + (n % 10)))

\* (?P<fext>\.[^.]+?|)$ : a dot and at least one character, none of them a
\* dot, up to the end; or nothing at the end
MatchesExtToEnd(e) ==
    \/ e = <<>>
    \/ /\ Len(e) >= 2
       /\ e[1] = "."
       /\ \A i \in 2..Len(e) : e[i] # "."

\* the length of the run of digits of r that starts at position i
RECURSIVE DigitRun(_, _)
DigitRun(r, i) ==
    IF i <= Len(r) /\ IsDigit(r[i]) THEN 1 + DigitRun(r, i + 1) ELSE 0

\* \s\((?P<fnum>\d+)\) at the front of r, then fext up to the end
MatchesNumThenExt(r) ==
    LET d == DigitRun(r, 3)
    IN  /\ Len(r) >= 4
        /\ IsSpace(r[1])
        /\ r[2] = "("
        /\ d >= 1
        /\ Len(r) >= 3 + d
        /\ r[3 + d] = ")"
        /\ MatchesExtToEnd(Drop(r, 3 + d))

\* the pattern matches name with fname = its first k characters: the
\* numbered alternative, or the empty one, then fext up to the end
MatchesAt(name, k) ==
    \/ MatchesNumThenExt(Drop(name, k))
    \/ MatchesExtToEnd(Drop(name, k))

\* the groups when the rest r of the name follows fname
GroupsOf(fname, r, numbered, d) ==
    IF numbered
    THEN [fname |-> fname, fnum |-> DigitsToInt(SubSeq(r, 3, 2 + d)), fext |-> Drop(r, 3 + d)]
    ELSE [fname |-> fname, fnum |-> 0, fext |-> r]

\* the groups when fname is the first k characters of name
GroupsAt(name, k) ==
    GroupsOf(SubSeq(name, 1, k), Drop(name, k), MatchesNumThenExt(Drop(name, k)),
             DigitRun(Drop(name, k), 3))

\* the groups of re.match(p, name): fname is the shortest non-empty prefix
\* after which the rest of the pattern matches (.+? is lazy); at that
\* prefix the numbered alternative is tried before the empty one
ParseName(name) ==
    IF name = <<>> THEN [fname |-> <<>>, fnum |-> 0, fext |-> <<>>]
    ELSE GroupsAt(name, CHOOSE i \in 1..Len(name) :
                            MatchesAt(name, i) /\ \A j \in 1..(i-1) : ~MatchesAt(name, j))

\* a list of integers, sorted ascending (list.sort())
SortInts(n) == SortSeq(n, LAMBDA a, b : a < b)

RECURSIVE FreeNum(_, _)
\* the loop of lines 637-642 over the sorted list n, from candidate fnum
FreeNum(n, fnum) ==
    IF n = <<>> THEN fnum
    ELSE IF Head(n) = fnum THEN FreeNum(Tail(n), fnum + 1)
    ELSE fnum

\* p and the parsed existing name q share stem and extension (lines
\* 626-627 and 630-631: compared with .lower())
SameStem(p, q) ==
    /\ Lower(q.fname) = Lower(p.fname)
    /\ Lower(q.fext) = Lower(p.fext)

\* p and the parsed existing name q are an exact match (lines 626-627)
ExactMatch(p, q) == SameStem(p, q) /\ q.fnum = p.fnum

\* the list n after the parsed existing name q is seen (lines 630-631)
NumsWith(p, q, rest) ==
    IF SameStem(p, q) /\ q.fnum # p.fnum THEN <<q.fnum>> \o rest ELSE rest

\* the numbers of the entries that share stem and extension with p but
\* not its number, in directory order (the list n)
RECURSIVE OtherNums(_, _)
OtherNums(p, names) ==
    IF names = <<>> THEN <<>>
    ELSE NumsWith(p, ParseName(Head(names)), OtherNums(p, Tail(names)))

\* f'{fname} ({fnum}){fext}'
FormatName(fname, fnum, fext) ==
    fname \o <<" ", "(">> \o IntToDigits(fnum) \o <<")">> \o fext

\* the positions (from 1) of the exact matches of p in names
ExactMatches(p, names) == {i \in 1..Len(names) : ExactMatch(p, ParseName(names[i]))}

\* lines 632-647: what __is_duplicate returns for the parsed name p whose
\* exact matches are at hits
DuplicateOf(p, names, hits) ==
    IF hits = {} THEN Absent
    ELSE <<(CHOOSE i \in hits : \A j \in hits : j <= i) - 1,
           FormatName(p.fname, FreeNum(SortInts(OtherNums(p, names)), 2), p.fext)>>

\* the parsed name p against the display names of the directory
IsDuplicateParsed(p, names) == DuplicateOf(p, names, ExactMatches(p, names))

\* __is_duplicate(name) over the display names of the directory: Absent, or
\* <<index of the last exact match (from 0), suggested name>>
IsDuplicate(name, names) == IsDuplicateParsed(ParseName(name), names)

(***************************************************************************)
(* _dostime.  A wall-clock time (time.struct_time) is a record             *)
(* [year, mon, mday, hour, min, sec].  A float time t is represented by    *)
(* the normalised local wall-clock time it denotes (a time zone without    *)
(* daylight saving), so time.localtime is the identity on it and           *)
(* time.mktime is the normalisation of its argument.                       *)
(* On non-negative integers x & (2^k - 1) is x % 2^k, x >> k is            *)
(* x \div 2^k, x << k is x * 2^k, and | of fields that share no bit is +.  *)
(***************************************************************************)
\* _time.set_time(tm: struct_time), lines 89-93
TimeOfStruct(tm) ==
    LET second == tm.sec \div 2
    IN  [hour |-> tm.hour, minute |-> tm.min, second |-> second,
         value |-> (second % 32) + (tm.min % 64) * 32 + (tm.hour % 32) * 2048]

\* _time.set_time(tm: int), lines 94-98
TimeOfInt(tm) ==
    [hour   |-> (tm % 32) \div 2048,
     minute |-> (tm % 64) \div 32,
     second |-> tm % 32,
     value  |-> tm]

\* _date.set_date(tm: struct_time), lines 108-112
DateOfStruct(tm) ==
    LET year == tm.year - 1980
    IN  [year |-> year, month |-> tm.mon, day |-> tm.mday,
         value |-> (tm.mday % 32) + (tm.mon % 16) * 32 + (year % 128) * 512]

\* _date.set_date(tm: int), lines 113-117
DateOfInt(tm) ==
    [year  |-> (tm % 128) \div 512,
     month |-> (tm % 16) \div 32,
     day   |-> tm % 32,
     value |-> tm]

\* _dostime.dostime(t) for a representable t: both halves from localtime(t)
DosTime(t) == [time |-> TimeOfStruct(t), date |-> DateOfStruct(t)]

\* a _dostime whose halves were set from the two 16-bit header fields
DosTimeOfInts(t16, d16) == [time |-> TimeOfInt(t16), date |-> DateOfInt(d16)]

\* the struct_time that mktimedos builds from the fields, lines 138-146
StructOfDos(ft) ==
    [year |-> ft.date.year + 1980, mon |-> ft.date.month, mday |-> ft.date.day,
     hour |-> ft.time.hour, min |-> ft.time.minute, sec |-> ft.time.second * 2]

IsLeap(y) == (y % 4 = 0 /\ y % 100 # 0) \/ y % 400 = 0

DaysInMonth(y, m) ==
    IF m = 2 THEN (IF IsLeap(y) THEN 29 ELSE 28)
    ELSE IF m \in {4, 6, 9, 11} THEN 30 ELSE 31

RECURSIVE NormDay(_)
\* carry an out-of-range day of the month into the month and the year
NormDay(tm) ==
    IF tm.mday < 1
    THEN LET pm == IF tm.mon = 1 THEN 12 ELSE tm.mon - 1
             py == IF tm.mon = 1 THEN tm.year - 1 ELSE tm.year
         IN  NormDay([tm EXCEPT !.year = py, !.mon = pm,
                                !.mday = tm.mday + DaysInMonth(py, pm)])
    ELSE IF tm.mday > DaysInMonth(tm.year, tm.mon)
    THEN NormDay([tm EXCEPT !.year = IF tm.mon = 12 THEN tm.year + 1 ELSE tm.year,
                            !.mon  = IF tm.mon = 12 THEN 1 ELSE tm.mon + 1,
                            !.mday = tm.mday - DaysInMonth(tm.year, tm.mon)])
    ELSE tm

\* time.mktime(tm) as the wall-clock time it denotes: seconds, minutes,
\* hours and months carry, then the day of the month
MkTime(tm) ==
    LET mi == tm.min + (tm.sec \div 60)
        h  == tm.hour + (mi \div 60)
        d  == tm.mday + (h \div 24)
        m0 == tm.mon - 1
    IN  NormDay([year |-> tm.year + (m0 \div 12), mon |-> (m0 % 12) + 1, mday |-> d,
                 hour |-> h % 24, min |-> mi % 60, sec |-> tm.sec % 60])

\* _dostime.mktimedos()
MkTimeDos(ft) == MkTime(StructOfDos(ft))

(***************************************************************************)
(* Bytes: the default obfuscation, the signatures, CRC-32 and raw Deflate. *)
(***************************************************************************)
\* one byte of __mrs_default_decrypt: rotate right by 3, then complement
DefaultDecryptByte(c) == 255 - ((c \div 8) + ((c * 32) % 256))

\* an encryption of one byte that complements, then rotates left by 4
RotatesByFour(b) ==
    LET c == 255 - b IN ((c * 16) % 256) + (c \div 16)

\* one byte of __mrs_default_encrypt: complement, then rotate left by 3
DefaultEncryptByte(b) ==
    LET c == 255 - b IN ((c * 8) % 256) + (c \div 32)

\* __mrs_default_decrypt(buffer, size): the first size bytes are transformed
DefaultDecrypt(buffer, size) ==
    [i \in 1..Len(buffer) |->
        IF i <= size THEN DefaultDecryptByte(buffer[i]) ELSE buffer[i]]

\* __mrs_default_encrypt(buffer, size)
DefaultEncrypt(buffer, size) ==
    [i \in 1..Len(buffer) |->
        IF i <= size THEN DefaultEncryptByte(buffer[i]) ELSE buffer[i]]

\* the magic numbers, as the four bytes struct format '<I' reads them from
BASE_MAGIC1 == <<7, 2, 3, 5>>          \* _mrs_hdr.MAGIC1 = 0x5030207

BASE_MAGIC2 == <<8, 2, 3, 5>>          \* _mrs_hdr.MAGIC2 = 0x5030208

BASE_MAGIC3 == <<80, 75, 5, 6>>        \* _mrs_hdr.MAGIC3 = 0x6054b50

LOCAL_MAGIC1 == <<80, 75, 3, 4>>       \* _mrs_local_hdr.MAGIC1 = 0x4034b50

LOCAL_MAGIC2 == <<0, 0, 132, 133>>     \* _mrs_local_hdr.MAGIC2 = 0x85840000

CDIR_MAGIC1 == <<80, 75, 1, 2>>        \* _mrs_central_dir_hdr.MAGIC1 = 0x2014b50

CDIR_MAGIC2 == <<128, 75, 2, 5>>       \* _mrs_central_dir_hdr.MAGIC2 = 0x5024b80

\* mrs_signature_where
BASE_HDR == 1

LOCAL_HDR == 2

CENTRAL_DIR_HDR == 3

\* mrs_dupe_behavior
KEEP_NEW == 0

KEEP_OLD == 1

KEEP_BOTH == 2

\* mrs.COMPRESSION_*
COMPRESSION_STORE == 0

COMPRESSION_DEFLATE == 8

\* a default check that knows the base header's magics only, at every header
BaseMagicsEverywhere(where, signature) ==
    signature \in {BASE_MAGIC1, BASE_MAGIC2, BASE_MAGIC3}

\* __mrs_default_signatures(where, signature)
DefaultSignatures(where, signature) ==
    IF where = BASE_HDR THEN signature \in {BASE_MAGIC1, BASE_MAGIC2, BASE_MAGIC3}
    ELSE IF where = LOCAL_HDR THEN signature \in {LOCAL_MAGIC1, LOCAL_MAGIC2}
    ELSE IF where = CENTRAL_DIR_HDR THEN signature \in {CDIR_MAGIC1, CDIR_MAGIC2}
    ELSE FALSE

RECURSIVE Xor(_, _)
\* a ^ b on non-negative integers
Xor(a, b) ==
    IF a = 0 THEN b
    ELSE IF b = 0 THEN a
    ELSE ((a + b) % 2) + 2 * Xor(a \div 2, b \div 2)

\* the CRC register is a pair <<high 16 bits, low 16 bits>>
RECURSIVE CrcBits(_, _)
\* k rounds of: shift right by one, xor 0xEDB88320 if a one fell out
CrcBits(c, k) ==
    IF k = 0 THEN c
    ELSE LET hi == c[1] \div 2
             lo == (c[2] \div 2) + (c[1] % 2) * 32768
             nx == IF c[2] % 2 = 1 THEN <<Xor(hi, 60856), Xor(lo, 33568)>>
                   ELSE <<hi, lo>>
         IN  IF nx[1] + nx[2] >= 0 THEN CrcBits(nx, k - 1) ELSE nx

RECURSIVE CrcUpdate(_, _)
\* the register after the bytes of buf
CrcUpdate(c, buf) ==
    IF buf = <<>> THEN c
    ELSE LET nx == CrcBits(<<c[1], Xor(c[2], Head(buf))>>, 8)
         IN  IF nx[1] + nx[2] >= 0 THEN CrcUpdate(nx, Tail(buf)) ELSE nx

\* zlib.crc32(buf), as the four little-endian bytes of the 32-bit value
Crc32(buf) ==
    LET c  == CrcUpdate(<<65535, 65535>>, buf)
        hi == 65535 - c[1]
        lo == 65535 - c[2]
    IN  <<lo % 256, lo \div 256, hi % 256, hi \div 256>>

\* a 32-bit zero, the initial value of the crc32 header fields
ZeroU32 == <<0, 0, 0, 0>>

\* a complete raw Deflate stream for buf: one final stored block
\* (BFINAL=1, BTYPE=00, LEN, NLEN, data)
DeflateStream(buf) ==
    <<1, Len(buf) % 256, Len(buf) \div 256,
      255 - (Len(buf) % 256), 255 - (Len(buf) \div 256)>> \o buf

\* the window-bits and memory-level arguments of zlib.compressobj(9, 8, -15):
\* deflate buffers 2^(MemLevel + 6) symbols before it emits its first block
MemLevel == 8

\* zlib.compressobj(9, 8, -15).compress(buf), with no flush(): the bytes
\* emitted so far, none while the symbol buffer has not filled, and never
\* the end of the stream
CobjCompress(buf) ==
    LET stream == DeflateStream(buf)
    IN  IF Len(buf) < 2^(MemLevel + 6) THEN <<>>
        ELSE SubSeq(stream, 1, Len(stream) - 1)

\* zlib.decompress(b, -15) on the streams of the model: [ok, data]; a
\* stream that is empty, cut short or not a stored block raises zlib.error
Inflate(b) ==
    IF /\ Len(b) >= 5
       /\ b[1] = 1
       /\ b[4] = 255 - b[2]
       /\ b[5] = 255 - b[3]
       /\ Len(b) >= 5 + b[2] + 256 * b[3]
    THEN [ok |-> TRUE, data |-> SubSeq(b, 6, 5 + b[2] + 256 * b[3])]
    ELSE [ok |-> FALSE, data |-> <<>>]

(***************************************************************************)
(* Text codecs.  _enc_str and _dec_str try 'mbcs' first; on the platform   *)
(* the module is written for it is there and maps the characters of the    *)
(* table to one byte each (their code point), so it is the codec recorded. *)
(***************************************************************************)
\* _enc_str(s): <<encoded bytes, codec>>
EncStr(s) == <<[i \in 1..Len(s) |-> Ord(s[i])], "mbcs">>

\* _dec_str(b): <<text, codec>>
DecStr(b) == <<[i \in 1..Len(b) |-> Chr(b[i])], "mbcs">>

\* str.encode(codec) for the codec an entry recorded
EncodeWith(s, codec) == [i \in 1..Len(s) |-> Ord(s[i])]

\* final_name.replace('/', '\\')
SlashToBackslash(s) == [i \in 1..Len(s) |-> IF s[i] = "/" THEN "\\" ELSE s[i]]

(***************************************************************************)
(* The content store mrs.__mem, a seekable temporary file.                 *)
(***************************************************************************)
\* a write that always lands at the start of the file
WritesAtStart(m, pos, b) ==
    [i \in 1..(IF Len(b) > Len(m) THEN Len(b) ELSE Len(m)) |->
        IF i <= Len(b) THEN b[i] ELSE m[i]]

\* file.write(b) at position pos of a file holding m: the new contents
WriteAt(m, pos, b) ==
    [i \in 1..(IF pos + Len(b) > Len(m) THEN pos + Len(b) ELSE Len(m)) |->
        IF i > pos /\ i <= pos + Len(b) THEN b[i - pos] ELSE m[i]]

\* __mem_read(offset, bufsize): [ok, buf]; BufferError when offset >= size
MemRead(m, offset, bufsize) ==
    IF offset >= Len(m) THEN [ok |-> FALSE, buf |-> <<>>]
    ELSE [ok |-> TRUE, buf |-> Take(Drop(m, offset), bufsize)]

(***************************************************************************)
(* Header records.                                                         *)
(***************************************************************************)
\* _dostime(): all fields 0
NewDosTime ==
    [time |-> [hour |-> 0, minute |-> 0, second |-> 0, value |-> 0],
     date |-> [year |-> 0, month |-> 0, day |-> 0, value |-> 0]]

\* _mrs_local_hdr()
NewLocalHdr ==
    [signature |-> ZeroU32, version |-> 0, flags |-> 0, compression |-> 0,
     filetime |-> NewDosTime, crc32 |-> ZeroU32, compressed_size |-> 0,
     uncompressed_size |-> 0, filename_length |-> 0, extra_length |-> 0,
     filename |-> Absent, extra |-> Absent]

\* _mrs_central_dir_hdr()
NewCentralDirHdr ==
    [signature |-> ZeroU32, version_made |-> 0, version_needed |-> 0, flags |-> 0,
     compression |-> 0, filetime |-> NewDosTime, crc32 |-> ZeroU32,
     compressed_size |-> 0, uncompressed_size |-> 0, filename_length |-> 0,
     extra_length |-> 0, comment_length |-> 0, offset |-> 0,
     filename |-> Absent, extra |-> Absent, comment |-> Absent]

\* _mrs_file()
NewMrsFile ==
    [lh |-> NewLocalHdr, dh |-> NewCentralDirHdr,
     filenameuc |-> Absent, filenameenc |-> None]

\* _mrs_local_hdr.VER, _mrs_central_dir_hdr.VER_MADE / VER_NEEDED
LOCAL_VER == 20

CDIR_VER_MADE == 25

CDIR_VER_NEEDED == 20

\* the display names of the directory, in order
DisplayNames(fs) == [i \in 1..Len(fs) |-> fs[i].filenameuc]

\* the outcome record of a call; fp is the state in which the call left the
\* foreign file handle it opened ("none" when it opened none)
Outcome(op, index, name, on_dupe, res, out, dup) ==
    [op |-> op, index |-> index, name |-> name, on_dupe |-> on_dupe,
     res |-> res, out |-> out, dup |-> dup, fp |-> "none"]

\* the outcome record of a call that raised e
Failure(op, e) == Outcome(op, -1, Absent, -1, e, <<>>, Absent)

(***************************************************************************)
(* mrs.add_file                                                            *)
(***************************************************************************)
\* what a source path holds: a file with its bytes, nothing, or a directory
FilePath(data) == [kind |-> "file", data |-> data]

MissingPath == [kind |-> "missing", data |-> <<>>]

DirectoryPath == [kind |-> "directory", data |-> <<>>]

\* lines 731-743: <<cbuf, compression>> for the bytes read from the source;
\* zerr says that zlib raised
CompressSource(buf, zerr) ==
    IF Len(buf) > 0
    THEN IF zerr THEN <<buf, COMPRESSION_STORE>>
         ELSE <<CobjCompress(buf), COMPRESSION_DEFLATE>>
    ELSE <<buf, COMPRESSION_STORE>>

\* lines 673-754: the _mrs_file built for display name final_name, source
\* bytes buf modified at mtime, with the store positioned at pos
BuildFile(final_name, buf, mtime, zerr, pos) ==
    LET enc   == EncStr(final_name)
        c     == CompressSource(buf, zerr)
        crc   == IF Len(buf) > 0 THEN Crc32(buf) ELSE ZeroU32
        ftime == DosTime(mtime)
    IN  [filenameuc  |-> final_name,
         filenameenc |-> enc[2],
         dh |-> [NewCentralDirHdr EXCEPT
                    !.signature = CDIR_MAGIC1,
                    !.version_made = CDIR_VER_MADE,
                    !.version_needed = CDIR_VER_NEEDED,
                    !.compression = c[2],
                    !.uncompressed_size = Len(buf),
                    !.filename_length = Len(enc[1]),
                    !.filetime = ftime,
                    !.crc32 = crc,
                    !.compressed_size = Len(c[1]),
                    !.filename = enc[1],
                    !.offset = pos],
         lh |-> [NewLocalHdr EXCEPT
                    !.signature = LOCAL_MAGIC1,
                    !.version = LOCAL_VER,
                    !.compression = c[2],
                    !.uncompressed_size = Len(buf),
                    !.filename_length = Len(enc[1]),
                    !.filetime = ftime,
                    !.crc32 = crc,
                    !.compressed_size = Len(c[1]),
                    !.filename = enc[1]]]

\* lines 667-671: the name the entry is stored under
ResolvedName(final_name, dup, on_dupe) ==
    IF dup # Absent /\ on_dupe = KEEP_BOTH THEN dup[2] ELSE final_name

\* a resolver that refuses no duplicate
NeverRefuses(dup, on_dupe) == FALSE

\* line 668: the call is refused as a duplicate
RefusesDuplicate(dup, on_dupe) == dup # Absent /\ on_dupe = KEEP_OLD

\* lines 762-763 / 941-943: the entry replaces the exact match in place
ReplacesInPlace(dup, on_dupe) == on_dupe = KEEP_NEW /\ dup # Absent

\* a commit that puts a new entry at the head of the directory
CommitsAtHead(fs, f, dup, on_dupe) ==
    IF on_dupe = KEEP_NEW /\ dup # Absent
    THEN [fs EXCEPT ![dup[1] + 1] = f]
    ELSE <<f>> \o fs

\* lines 762-768: the directory after f is committed
CommitFiles(fs, f, dup, on_dupe) ==
    IF ReplacesInPlace(dup, on_dupe)
    THEN [fs EXCEPT ![dup[1] + 1] = f]
    ELSE Append(fs, f)

\* a commit that leaves the counters of the base header alone
KeepsCounters(h, dup, on_dupe) == h

\* lines 766-768: the base header after f is committed
CommitHdr(h, dup, on_dupe) ==
    IF ReplacesInPlace(dup, on_dupe) THEN h
    ELSE [h EXCEPT !.dir_count = h.dir_count + 1,
                   !.total_dir_count = h.dir_count + 1]

\* the history of contents, kept in step with the directory
CommitOrig(og, dup, on_dupe, by, content) ==
    IF ReplacesInPlace(dup, on_dupe)
    THEN [og EXCEPT ![dup[1] + 1] = [by |-> by, content |-> content]]
    ELSE Append(og, [by |-> by, content |-> content])

\* add_file raises e: nothing is touched
AddFileFails(e) ==
    /\ last' = Failure("add_file", e)
    /\ UNCHANGED <<files, hdr, mem, mempos, orig>>

\* lines 745-768: cbuf is written to the store and f is committed
AddFileCommit(final_name, on_dupe, dup, f, cbuf, content) ==
    /\ mem' = WriteAt(mem, mempos, cbuf)
    /\ mempos' = mempos + Len(cbuf)
    /\ files' = CommitFiles(files, f, dup, on_dupe)
    /\ hdr' = CommitHdr(hdr, dup, on_dupe)
    /\ orig' = CommitOrig(orig, dup, on_dupe, "add_file", content)
    /\ last' = Outcome("add_file",
                       IF ReplacesInPlace(dup, on_dupe) THEN dup[1] ELSE Len(files),
                       final_name, on_dupe, "ok", <<>>, dup)

\* lines 666-768: add_file once __is_duplicate has returned dup
AddFileResolved(final_name, name1, dup, on_dupe, src, mtime, zerr) ==
    IF RefusesDuplicate(dup, on_dupe) THEN AddFileFails("ValueError")
    ELSE IF src.kind = "missing" THEN AddFileFails("FileNotFoundError")
    ELSE IF src.kind = "directory" THEN AddFileFails("IsADirectoryError")
    ELSE AddFileCommit(final_name, on_dupe, dup,
                       BuildFile(ResolvedName(name1, dup, on_dupe), src.data, mtime,
                                 zerr, mempos),
                       CompressSource(src.data, zerr)[1], src.data)

\* lines 659-768: add_file for the display name name1
AddFileNamed(final_name, name1, on_dupe, src, mtime, zerr) ==
    IF ~IsValidFilename(name1) THEN AddFileFails("UnicodeError")
    ELSE AddFileResolved(final_name, name1, IsDuplicate(name1, DisplayNames(files)),
                         on_dupe, src, mtime, zerr)

\* add_file(name, final_name=final_name, on_dupe=on_dupe), where the path
\* name is the source path src, last modified at mtime
AddFile(final_name, on_dupe, src, mtime, zerr) ==
    /\ UNCHANGED <<decrypt, sigcheck, probe, orphans>>
    /\ AddFileNamed(final_name, SlashToBackslash(final_name), on_dupe, src, mtime, zerr)

(***************************************************************************)
(* mrs.read                                                                *)
(***************************************************************************)
\* self.__files[index] exists: a Python list takes 0..len-1 and -len..-1
ListHas(fs, index) == index < Len(fs) /\ index >= 0 - Len(fs)

\* self.__files[index], for an index the list has
ListGet(fs, index) == IF index >= 0 THEN fs[index + 1] ELSE fs[Len(fs) + index + 1]

\* the bound check of read, get_file and set_file (lines 958, 1022, 1034)
OutOfBound(index, h) == index >= h.dir_count

\* a read that returns no bytes, whatever the index
ReadsNothing(fs, h, m, index) == <<"ok", <<>>>>

\* read(index): <<result, bytes>>
ReadResult(fs, h, m, index) ==
    IF OutOfBound(index, h) \/ ~ListHas(fs, index) THEN <<"IndexError", <<>>>>
    ELSE LET e == ListGet(fs, index)
             b == MemRead(m, e.dh.offset, e.dh.compressed_size)
         IN  IF ~b.ok THEN <<"BufferError", <<>>>>
             ELSE IF e.dh.compression = COMPRESSION_DEFLATE
             THEN (IF Inflate(b.buf).ok THEN <<"ok", Inflate(b.buf).data>>
                   ELSE <<"zlib.error", <<>>>>)
             ELSE <<"ok", b.buf>>

\* read(index); __mem_read leaves the store positioned at its end
Read(index) ==
    LET r == ReadResult(files, hdr, mem, index)
    IN  /\ last' = Outcome("read", index, Absent, -1, r[1], r[2], Absent)
        /\ mempos' = IF r[1] = "IndexError" THEN mempos ELSE Len(mem)
        /\ UNCHANGED <<files, hdr, mem, decrypt, sigcheck, orig, probe, orphans>>

(***************************************************************************)
(* mrs.get_file_count, mrs.get_file, mrs.set_file and the name setter of   *)
(* mrs_file                                                                *)
(***************************************************************************)
\* get_file_count() of an archive whose base header is h
GetFileCount(h) == h.dir_count

\* the mrs_file that get_file builds for entry f at index (line 1025)
MrsFileOf(f, index) ==
    [index |-> index, name |-> f.filenameuc, crc32 |-> f.dh.crc32,
     size |-> f.dh.uncompressed_size, compressed_size |-> f.dh.compressed_size,
     ftime |-> MkTimeDos(f.dh.filetime), lh_extra |-> f.lh.extra,
     dh_extra |-> f.dh.extra, dh_comment |-> f.dh.comment]

\* lines 1037-1050: entry f after set_file stores the fields of file in it
SetFields(f, file) ==
    LET enc == EncStr(file.name)
    IN  [f EXCEPT !.filenameuc = file.name,
                  !.dh.filename = enc[1],
                  !.filenameenc = enc[2],
                  !.lh.filename = enc[1],
                  !.dh.filetime = DosTime(file.ftime),
                  !.lh.extra = file.lh_extra,
                  !.dh.extra = file.dh_extra,
                  !.dh.comment = file.dh_comment]

\* the directory after set_file(index, file), for an index the list has
SetFileAt(fs, index, file) ==
    LET k == IF index >= 0 THEN index + 1 ELSE Len(fs) + index + 1
    IN  [fs EXCEPT ![k] = SetFields(fs[k], file)]

\* get_file(index)
GetFile(index) ==
    LET bad == OutOfBound(index, hdr) \/ ~ListHas(files, index)
    IN  /\ last' = Outcome("get_file", index, Absent, -1,
                           IF bad THEN "IndexError" ELSE "ok",
                           IF bad THEN <<>> ELSE MrsFileOf(ListGet(files, index), index),
                           Absent)
        /\ UNCHANGED <<files, hdr, mem, mempos, decrypt, sigcheck, orig, probe, orphans>>

\* get_files(), run to its end: the mrs_file of every entry, in order
GetFiles ==
    /\ last' = Outcome("get_files", -1, Absent, -1, "ok",
                       [i \in 1..Len(files) |-> MrsFileOf(files[i], i - 1)], Absent)
    /\ UNCHANGED <<files, hdr, mem, mempos, decrypt, sigcheck, orig, probe, orphans>>

\* the mrs_file the caller gives to set_file: what get_file returned, or an
\* mrs_file built from it with the modification time newtime[1] (when
\* newtime is not empty), with the name newname (when newname is not
\* Absent) given through the name setter or to the constructor
CallerFile(file, newname, newtime) ==
    [file EXCEPT !.name  = IF newname = Absent THEN @ ELSE newname,
                 !.ftime = IF newtime = <<>> THEN @ ELSE newtime[1]]

\* file = CallerFile(get_file(from), newname, newtime); set_file(index, file).
\* built: newname was given to the constructor of mrs_file (lines 406-416),
\* which validates nothing, and not through the name setter (lines 425-433)
SetFile(index, from, newname, newtime, built) ==
    LET file == MrsFileOf(ListGet(files, from), from)
        bad  == OutOfBound(index, hdr) \/ ~ListHas(files, index)
    IN  /\ ~OutOfBound(from, hdr) /\ ListHas(files, from)
        /\ UNCHANGED <<hdr, mem, mempos, decrypt, sigcheck, orig, probe, orphans>>
        /\ IF newname # Absent /\ ~built /\ ~IsValidFilename(newname)
           THEN /\ last' = Failure("set_name", "UnicodeError")
                /\ UNCHANGED files
           ELSE IF bad
           THEN /\ last' = [Failure("set_file", "IndexError") EXCEPT !.index = index]
                /\ UNCHANGED files
           ELSE /\ files' = SetFileAt(files, index, CallerFile(file, newname, newtime))
                /\ last' = Outcome("set_file", index, newname, -1, "ok",
                                   IF newtime = <<>> THEN <<from>> ELSE <<from, 1>>,
                                   Absent)

(***************************************************************************)
(* The hook registry and the signature check.                              *)
(***************************************************************************)
\* mrs_encryption()
NewEncryption ==
    [base_hdr |-> None, local_hdr |-> None, central_dir_hdr |-> None, buffer |-> None]

\* the callables a caller registers as hooks in this model, each a
\* function (buffer, size) -> bytes
CustomHooks == {"identity", "complement"}

\* hook(buffer, size) for a resolved hook; "default" is
\* self.__mrs_default_decrypt
ApplyHook(hook, buffer, size) ==
    IF hook = "default" THEN DefaultDecrypt(buffer, size)
    ELSE IF hook = "complement"
    THEN [i \in 1..Len(buffer) |-> IF i <= size THEN 255 - buffer[i] ELSE buffer[i]]
    ELSE buffer

\* lines 810-814: the hooks add_mrs decrypts with
ResolveDecrypt(d) ==
    LET base == IF d.base_hdr # None THEN d.base_hdr ELSE "default"
    IN  [base_hdr        |-> base,
         local_hdr       |-> IF d.local_hdr # None THEN d.local_hdr ELSE base,
         central_dir_hdr |-> IF d.central_dir_hdr # None THEN d.central_dir_hdr ELSE base,
         buffer          |-> d.buffer]

\* a signature no default list holds, which the custom validator of this
\* model accepts at every header
ALT_MAGIC == <<1, 2, 3, 4>>

\* the callables a caller registers with set_signature_check in this model
CustomValidators == {"accept_alt", "accept_none"}

\* self.__sigcheck(where, signature) for a registered validator
CallValidator(v, where, signature) == v = "accept_alt" /\ signature = ALT_MAGIC

\* a signature check that lets every signature pass
AcceptsAnySignature(sc, where, signature) == TRUE

\* lines 823, 844, 882: the signature passes (the raise is not taken)
SignatureAccepted(sc, where, signature) ==
    ~ ( /\ ~DefaultSignatures(where, signature)
        /\ (sc = None \/ ~CallValidator(sc, where, signature)) )

\* set_decryption(<slot>=hook): a hook that is not callable is refused
SetDecryption(slot, hook) ==
    /\ IF hook \in CustomHooks
       THEN /\ decrypt' = [decrypt EXCEPT ![slot] = hook]
            /\ last' = Outcome("set_decryption", -1, Absent, -1, "ok", <<>>, Absent)
       ELSE /\ UNCHANGED decrypt
            /\ last' = Failure("set_decryption", "TypeError")
    /\ UNCHANGED <<files, hdr, mem, mempos, sigcheck, orig, probe, orphans>>

\* set_signature_check(f): f is None, a callable, or refused
SetSignatureCheck(f) ==
    /\ IF f = None \/ f \in CustomValidators
       THEN /\ sigcheck' = f
            /\ last' = Outcome("set_signature_check", -1, Absent, -1, "ok", <<>>, Absent)
       ELSE /\ UNCHANGED sigcheck
            /\ last' = Failure("set_signature_check", "TypeError")
    /\ UNCHANGED <<files, hdr, mem, mempos, decrypt, orig, probe, orphans>>

(***************************************************************************)
(* mrs.add_mrs.  A foreign archive file is a record                        *)
(*   base      the base header in its last 22 bytes                        *)
(*   cdir      the central directory records that lie, back to back, in    *)
(*             the dir_size bytes at dir_offset                            *)
(*   pad       the bytes of that region after the last record (fewer than  *)
(*             a central header, so no further record can be unpacked)     *)
(*   truncated the file ends before dir_offset + dir_size                  *)
(* Each central record carries the local header at its offset (local) and  *)
(* the bytes that follow that header's file name and extra field (data).   *)
(* Signatures are the raw bytes of the file; every other field is given    *)
(* as the value the resolved hook decrypts it to.                          *)
(***************************************************************************)
\* lines 874-889: the local header of record r, or the error raised
ReadLocalHdr(r, hk, sc) ==
    LET sig == ApplyHook(hk.local_hdr, r.local.signature, 4)
    IN  IF ~SignatureAccepted(sc, LOCAL_HDR, sig)
        THEN [res |-> "InvalidMrsEncryptionError", lh |-> NewLocalHdr]
        ELSE [res |-> "ok",
              lh  |-> [NewLocalHdr EXCEPT
                        !.signature = sig,
                        !.version = r.local.version,
                        !.compression = r.local.compression,
                        !.filetime = DosTimeOfInts(r.local.mod_time, r.local.mod_date),
                        !.crc32 = r.local.crc32,
                        !.compressed_size = r.local.compressed_size,
                        !.uncompressed_size = r.local.uncompressed_size,
                        !.filename_length = r.local.filename_length,
                        !.extra_length = Len(r.local.extra),
                        !.extra = IF Len(r.local.extra) # 0
                                  THEN DefaultDecrypt(r.local.extra, Len(r.local.extra))
                                  ELSE Absent]]

\* lines 842, 315-358: the central header unpacked from record r
ReadCentralDirHdr(r, hk) ==
    [NewCentralDirHdr EXCEPT
        !.signature = ApplyHook(hk.central_dir_hdr, r.signature, 4),
        !.version_made = r.version_made,
        !.version_needed = r.version_needed,
        !.compression = r.compression,
        !.filetime = DosTimeOfInts(r.mod_time, r.mod_date),
        !.crc32 = r.crc32,
        !.compressed_size = r.compressed_size,
        !.uncompressed_size = r.uncompressed_size,
        !.filename_length = Len(r.filename),
        !.extra_length = Len(r.extra),
        !.comment_length = Len(r.comment),
        !.offset = r.offset,
        !.filename = IF Len(r.filename) # 0 THEN r.filename ELSE Absent,
        !.extra = IF Len(r.extra) # 0 THEN r.extra ELSE Absent,
        !.comment = IF Len(r.comment) # 0 THEN r.comment ELSE Absent]

\* lines 865-866: f'{base_name}/{f.filenameuc}' if base_name (neither None
\* nor empty)
PrefixedName(base_name, uc) ==
    IF base_name # Absent THEN base_name \o <<"/">> \o uc ELSE uc

\* lines 894-915: <<result, offset, store, store position>> after the
\* payload of a record with central header dh is copied from data
CopyPayload(dh, data, m, pos) ==
    IF dh.compressed_size # 0
    THEN LET fbuf == Take(data, dh.compressed_size)
         IN  IF dh.compression = COMPRESSION_DEFLATE /\ ~Inflate(fbuf).ok
             THEN <<"zlib.error", pos, m, pos>>
             ELSE <<"ok", pos, WriteAt(m, Len(m), fbuf), Len(m) + Len(fbuf)>>
    ELSE <<"ok", 0, m, pos>>

\* the content a foreign record stands for
ForeignContent(r) ==
    LET fbuf == Take(r.data, r.compressed_size)
    IN  IF r.compression = COMPRESSION_DEFLATE THEN Inflate(fbuf).data ELSE fbuf

\* an iteration of the walk that raised e, leaving the store at m, pos2
Stopped(e, m, pos2) ==
    [res |-> e, mem |-> m, mempos |-> pos2, f |-> NewMrsFile, dup |-> Absent]

\* lines 925-934: the entry staged under display name uc2, encoded as fnam
Staged(dh0, lh, codec, cp, dup, uc2, fnam) ==
    [res |-> "ok", mem |-> cp[3], mempos |-> cp[4], dup |-> dup,
     f |-> [filenameuc  |-> uc2,
            filenameenc |-> codec,
            dh |-> [dh0 EXCEPT !.offset = cp[2],
                               !.filename = fnam,
                               !.filename_length = Len(fnam)],
            lh |-> [lh EXCEPT !.filename = fnam,
                              !.filename_length = Len(fnam)]]]

\* lines 918-934: the iteration once __is_duplicate has returned dup
WalkResolved(ctx, dh0, lh, codec, uc1, cp, dup) ==
    IF RefusesDuplicate(dup, ctx.on_dupe) THEN Stopped("ValueError", cp[3], cp[4])
    ELSE Staged(dh0, lh, codec, cp, dup, ResolvedName(uc1, dup, ctx.on_dupe),
                EncodeWith(ResolvedName(uc1, dup, ctx.on_dupe), codec))

\* lines 894-934: the iteration once the payload is copied, with result cp
WalkCopied(ctx, dh0, lh, codec, uc1, cp) ==
    IF cp[1] # "ok" THEN Stopped(cp[1], cp[3], cp[4])
    ELSE WalkResolved(ctx, dh0, lh, codec, uc1, cp, IsDuplicate(uc1, ctx.names))

\* lines 874-934: the iteration once the local header is read, with result l
WalkLocal(ctx, r, dh0, codec, uc1, l, m, pos) ==
    IF l.res # "ok" THEN Stopped(l.res, m, pos)
    ELSE WalkCopied(ctx, dh0, l.lh, codec, uc1, CopyPayload(dh0, r.data, m, pos))

\* lines 865-934: the iteration for the prefixed display name uc1
WalkNamed(ctx, r, dh0, codec, uc1, m, pos) ==
    IF ~IsValidFilename(uc1) THEN Stopped("UnicodeError", m, pos)
    ELSE WalkLocal(ctx, r, dh0, codec, uc1, ReadLocalHdr(r, ctx.hk, ctx.sc), m, pos)

\* lines 847-934: the iteration once _dec_str has returned dec
WalkDecoded(ctx, r, dh0, dec, m, pos) ==
    WalkNamed(ctx, r, dh0, dec[2], PrefixedName(ctx.base_name, dec[1]), m, pos)

\* lines 844-934: the iteration for the central header dh0 of record r
WalkHeader(ctx, r, dh0, m, pos) ==
    IF ~SignatureAccepted(ctx.sc, CENTRAL_DIR_HDR, dh0.signature)
    THEN Stopped("InvalidMrsEncryptionError", m, pos)
    ELSE IF dh0.filename = Absent THEN Stopped("UnicodeError", m, pos)
    ELSE WalkDecoded(ctx, r, dh0, DecStr(dh0.filename), m, pos)

\* lines 839-934: one iteration of the walk, for record r, with the store
\* holding m at position pos: the result, the store, and the pending entry
WalkEntry(ctx, r, m, pos) ==
    WalkHeader(ctx, r, ReadCentralDirHdr(r, ctx.hk), m, pos)

RECURSIVE WalkDir(_, _, _)
\* the walk after the iteration for record i gave e
WalkOn(ctx, i, st, e) ==
    IF e.res # "ok"
    THEN [st EXCEPT !.res = e.res, !.mem = e.mem, !.mempos = e.mempos]
    ELSE WalkDir(ctx, i + 1,
                 [res |-> "ok", mem |-> e.mem, mempos |-> e.mempos,
                  pend |-> Append(st.pend,
                                  <<e.f, e.dup, ForeignContent(ctx.a.cdir[i])>>)])

\* lines 838-936: iterations i..dir_count of the walk; st is the result so
\* far, the store, and the list _files of <<entry, dup, content>>
WalkDir(ctx, i, st) ==
    IF i > ctx.a.base.dir_count THEN st
    ELSE IF i > Len(ctx.a.cdir) THEN [st EXCEPT !.res = "struct.error"]
    ELSE WalkOn(ctx, i, st, WalkEntry(ctx, ctx.a.cdir[i], st.mem, st.mempos))

\* lines 940-950: d = [files, hdr, orig] after pending entry p is committed
CommitOne(d, p, on_dupe) ==
    [files |-> CommitFiles(d.files, p[1], p[2], on_dupe),
     hdr   |-> CommitHdr(d.hdr, p[2], on_dupe),
     orig  |-> CommitOrig(d.orig, p[2], on_dupe, "add_mrs", p[3])]

RECURSIVE CommitAll(_, _, _)
\* lines 940-950: d = [files, hdr, orig] after the pending entries are committed
CommitAll(d, pend, on_dupe) ==
    IF pend = <<>> THEN d
    ELSE CommitAll(CommitOne(d, Head(pend), on_dupe), Tail(pend), on_dupe)

\* add_mrs raised e with the foreign file handle in state fp
AddMrsRaised(e, fp, m, pos) ==
    [res |-> e, fp |-> fp, d |-> [files |-> files, hdr |-> hdr, orig |-> orig],
     mem |-> m, mempos |-> pos, pend |-> <<>>]

\* lines 938-952: the outcome of add_mrs once the walk has returned w
AddMrsWalked(w, on_dupe) ==
    IF w.res # "ok" THEN AddMrsRaised(w.res, "open", w.mem, w.mempos)
    ELSE [res |-> "ok", fp |-> "closed",
          d |-> CommitAll([files |-> files, hdr |-> hdr, orig |-> orig], w.pend, on_dupe),
          mem |-> w.mem, mempos |-> w.mempos, pend |-> w.pend]

\* the context of a walk of archive a with the hooks hk
WalkContext(a, hk, base_name, on_dupe) ==
    [a |-> a, hk |-> hk, sc |-> sigcheck, base_name |-> base_name,
     on_dupe |-> on_dupe, names |-> DisplayNames(files)]

\* lines 816-952: add_mrs with the resolved hooks hk
AddMrsWith(a, hk, base_name, on_dupe) ==
    IF ~SignatureAccepted(sigcheck, BASE_HDR, ApplyHook(hk.base_hdr, a.base.signature, 4))
    THEN AddMrsRaised("NotAMrsFileError", "open", mem, mempos)
    ELSE IF a.truncated
    THEN AddMrsRaised("NotAMrsFileError", "open", mem, mempos)
    ELSE AddMrsWalked(WalkDir(WalkContext(a, hk, base_name, on_dupe), 1,
                              [res |-> "ok", mem |-> mem, mempos |-> mempos,
                               pend |-> <<>>]),
                      on_dupe)

\* the outcome of add_mrs on archive a: the error raised or "ok", and the
\* state it leaves
AddMrsResult(a, base_name, on_dupe) ==
    IF ~a.exists THEN AddMrsRaised("FileNotFoundError", "none", mem, mempos)
    ELSE AddMrsWith(a, ResolveDecrypt(decrypt), base_name, on_dupe)

\* the index (from 0) at which each pending entry is committed, in order
RECURSIVE CommitIndexes(_, _, _)
CommitIndexes(n, pend, on_dupe) ==
    IF pend = <<>> THEN <<>>
    ELSE IF ReplacesInPlace(Head(pend)[2], on_dupe)
    THEN <<Head(pend)[2][1]>> \o CommitIndexes(n, Tail(pend), on_dupe)
    ELSE <<n>> \o CommitIndexes(n + 1, Tail(pend), on_dupe)

(***************************************************************************)
(* Bounds and inputs of the model.                                         *)
(***************************************************************************)
\* the most entries the directory holds
MaxFiles == 2

\* the most bytes the content store holds
MaxMem == 7

\* the most calls made on one archive object
MaxCalls == 3

\* display names given to add_file and to the name setter
NameInputs ==
    {   <<"a">>,
        <<"a", " ", "(", "2", ")">>,
        <<"C", "O", "N">>  }

\* contents of the source files
Sources == {<<>>, <<7, 7, 7>>}

\* modification times of the source files
Times == {[year |-> 2000, mon |-> 6, mday |-> 15, hour |-> 12, min |-> 34, sec |-> 57]}

\* modification times the callers give to set_file
NewTimes == {[year |-> 2001, mon |-> 1, mday |-> 1, hour |-> 0, min |-> 0, sec |-> 0]}

\* base paths given to add_mrs
BasePaths == {Absent, <<"s">>}

\* the modification time of the files of the foreign archives
ForeignTime == [year |-> 2000, mon |-> 6, mday |-> 15, hour |-> 12, min |-> 34, sec |-> 56]

\* the time and date fields of the records of the foreign archives
ForeignTime16 == DosTime(ForeignTime).time.value

ForeignDate16 == DosTime(ForeignTime).date.value

\* a central directory record and its local header, written for file name
\* fname with payload data, signatures csig and lsig
ForeignRecord(fname, compression, data, usize, crc, csig, lsig) ==
    [signature |-> csig, version_made |-> CDIR_VER_MADE,
     version_needed |-> CDIR_VER_NEEDED, compression |-> compression,
     mod_time |-> ForeignTime16, mod_date |-> ForeignDate16, crc32 |-> crc,
     compressed_size |-> Len(data), uncompressed_size |-> usize,
     filename |-> fname, extra |-> <<>>, comment |-> <<>>, offset |-> 0,
     local |-> [signature |-> lsig, version |-> LOCAL_VER,
                compression |-> compression, mod_time |-> ForeignTime16,
                mod_date |-> ForeignDate16, crc32 |-> crc,
                compressed_size |-> Len(data), uncompressed_size |-> usize,
                filename_length |-> Len(fname), extra |-> <<>>],
     data |-> data]

\* a foreign archive whose directory region holds exactly the records cdir
ForeignArchive(id, bsig, cdir) ==
    [id |-> id, exists |-> TRUE,
     base |-> [signature |-> bsig, dir_count |-> Len(cdir),
               total_dir_count |-> Len(cdir), comment_length |-> 0],
     cdir |-> cdir, pad |-> 0, truncated |-> FALSE]

\* signatures as a writer with the default obfuscation leaves them
EncBase == DefaultEncrypt(BASE_MAGIC1, 4)

EncCdir == DefaultEncrypt(CDIR_MAGIC1, 4)

EncLocal == DefaultEncrypt(LOCAL_MAGIC1, 4)

NameA == EncStr(<<"a">>)[1]

NameA2 == EncStr(<<"a", " ", "(", "2", ")">>)[1]

RecStore ==
    ForeignRecord(NameA, COMPRESSION_STORE, <<9, 8, 7>>, 3, Crc32(<<9, 8, 7>>),
                  EncCdir, EncLocal)

RecDeflate ==
    ForeignRecord(NameA2, COMPRESSION_DEFLATE, DeflateStream(<<9>>), 1, Crc32(<<9>>),
                  EncCdir, EncLocal)

RecEmpty ==
    ForeignRecord(NameA, COMPRESSION_STORE, <<>>, 0, ZeroU32, EncCdir, EncLocal)

\* a path that holds no file
MissingArchive == [ForeignArchive("missing", ZeroU32, <<>>) EXCEPT !.exists = FALSE]

\* foreign archives written with the default obfuscation
PlainArchives ==
    {   ForeignArchive("store", EncBase, <<RecStore>>),
        ForeignArchive("deflate", EncBase, <<RecDeflate>>),
        ForeignArchive("empty", EncBase, <<RecEmpty>>)  }

\* foreign archives some header of which was written with another hook
KeyedArchives ==
    {   \* written with no obfuscation at all
        ForeignArchive("plain", BASE_MAGIC1,
            <<ForeignRecord(NameA, COMPRESSION_STORE, <<9, 8, 7>>, 3, Crc32(<<9, 8, 7>>),
                            CDIR_MAGIC1, LOCAL_MAGIC1)>>),
        \* its second central record was overwritten with a plain one
        ForeignArchive("badcdir", EncBase,
            <<RecStore,
              ForeignRecord(NameA2, COMPRESSION_STORE, <<9, 8, 7>>, 3, Crc32(<<9, 8, 7>>),
                            CDIR_MAGIC1, EncLocal)>>),
        \* its local header is not obfuscated
        ForeignArchive("badlocal", EncBase,
            <<ForeignRecord(NameA, COMPRESSION_STORE, <<9, 8, 7>>, 3, Crc32(<<9, 8, 7>>),
                            EncCdir, LOCAL_MAGIC1)>>),
        \* written with the hook that "complement" undoes
        ForeignArchive("complement", ApplyHook("complement", BASE_MAGIC1, 4),
            <<ForeignRecord(NameA, COMPRESSION_STORE, <<9, 8, 7>>, 3, Crc32(<<9, 8, 7>>),
                            ApplyHook("complement", CDIR_MAGIC1, 4),
                            ApplyHook("complement", LOCAL_MAGIC1, 4))>>),
        \* written with the default obfuscation over signatures of its own
        ForeignArchive("alt", DefaultEncrypt(ALT_MAGIC, 4),
            <<ForeignRecord(NameA, COMPRESSION_STORE, <<9, 8, 7>>, 3, Crc32(<<9, 8, 7>>),
                            DefaultEncrypt(ALT_MAGIC, 4), DefaultEncrypt(ALT_MAGIC, 4))>>)  }

\* a foreign archive whose central record gives 5 as compressed_size while
\* the file ends 3 bytes after the local header and name of the entry: the
\* read of the payload returns those 3 bytes
ShortArchive ==
    ForeignArchive("short", EncBase,
        <<[RecStore EXCEPT !.compressed_size = 5, !.uncompressed_size = 5,
                           !.local.compressed_size = 5,
                           !.local.uncompressed_size = 5]>>)

\* foreign archives, written with the default obfuscation, that a writer of
\* well-formed archives does not produce
OddArchives ==
    {   \* two records of the same file name
        ForeignArchive("twins", EncBase, <<RecStore, RecStore>>),
        \* dir_size is 3 bytes more than the one record of the directory
        [ForeignArchive("padded", EncBase, <<RecStore>>) EXCEPT !.pad = 3],
        \* dir_count is 2 and the dir_size bytes hold one record
        [ForeignArchive("starved", EncBase, <<RecStore>>) EXCEPT !.base.dir_count = 2],
        \* the header in the last 22 bytes gives 3 as comment_length
        [ForeignArchive("commented", EncBase, <<RecStore>>)
            EXCEPT !.base.comment_length = 3]  }

\* the foreign archive files of the model
Archives == PlainArchives \cup KeyedArchives \cup {ShortArchive} \cup OddArchives

\* the archive that the path called id holds
ArchiveOf(id) == CHOOSE a \in Archives \cup {MissingArchive} : a.id = id

(***************************************************************************)
(* The archive engine as a state machine.                                  *)
(***************************************************************************)
\* the state and the outcome record that add_mrs leaves when its result is r
AddMrsLeaves(a, base_name, on_dupe, r) ==
    /\ Len(r.d.files) <= MaxFiles
    /\ Len(r.mem) <= MaxMem
    /\ files' = r.d.files
    /\ hdr' = r.d.hdr
    /\ orig' = r.d.orig
    /\ mem' = r.mem
    /\ mempos' = r.mempos
    /\ last' = [(IF r.res = "ok"
                 THEN Outcome("add_mrs", -1, base_name, on_dupe, "ok", a.id,
                              CommitIndexes(Len(files), r.pend, on_dupe))
                 ELSE [Failure("add_mrs", r.res)
                        EXCEPT !.out = a.id, !.on_dupe = on_dupe, !.name = base_name])
                EXCEPT !.fp = r.fp]
    /\ orphans' = IF r.res = "ok" THEN orphans
                  ELSE orphans \cup ((Len(mem) + 1)..Len(r.mem))
    /\ UNCHANGED <<decrypt, sigcheck, probe>>

\* add_mrs(name, base_name=base_name, on_dupe=on_dupe), where the path name
\* holds the foreign archive a
AddMrs(a, base_name, on_dupe) ==
    AddMrsLeaves(a, base_name, on_dupe, AddMrsResult(a, base_name, on_dupe))

\* mrs(): the state after construction
Fresh ==
    /\ files = <<>>
    /\ hdr = [dir_count |-> 0, total_dir_count |-> 0]
    /\ mem = <<>>
    /\ mempos = 0
    /\ decrypt = NewEncryption
    /\ sigcheck = None
    /\ orig = <<>>
    /\ last = Outcome("init", -1, Absent, -1, "ok", <<>>, Absent)
    /\ calls = 0
    /\ orphans = {}

Init == Fresh /\ probe = None

\* the indexes the callers pass
Indexes == (0 - 1)..MaxFiles

Policies == {KEEP_NEW, KEEP_OLD, KEEP_BOTH}

\* one more call is made on the object, of the MaxCalls the model follows
Called == calls < MaxCalls /\ calls' = calls + 1

AddFileStep ==
    \E n \in NameInputs, p \in Policies, src \in {FilePath(b) : b \in Sources} \cup {MissingPath},
       t \in Times, zerr \in BOOLEAN :
        /\ Called
        /\ AddFile(n, p, src, t, zerr)
        /\ Len(files') <= MaxFiles
        /\ Len(mem') <= MaxMem

AddMrsStep ==
    \E a \in PlainArchives \cup {MissingArchive}, b \in BasePaths, p \in Policies :
        Called /\ AddMrs(a, b, p)

ReadStep == \E i \in Indexes : Called /\ Read(i)

GetFileStep == \E i \in Indexes : Called /\ GetFile(i)

GetFilesStep == Called /\ GetFiles

\* set_file(i, file) with file made from get_file(from): of the same entry,
\* or of another one when i is an index the directory does not have
SetFileStep ==
    \E i \in Indexes, from \in Indexes, n \in NameInputs \cup {Absent},
       t \in {<<>>} \cup {<<x>> : x \in NewTimes}, built \in BOOLEAN :
        /\ i = from \/ OutOfBound(i, hdr) \/ ~ListHas(files, i)
        /\ built => n # Absent
        /\ Called
        /\ SetFile(i, from, n, t, built)

Next ==
    \/ AddFileStep
    \/ AddMrsStep
    \/ ReadStep
    \/ GetFileStep
    \/ SetFileStep
    \/ GetFilesStep

Spec == Init /\ [][Next]_vars

(***************************************************************************)
(* Loading foreign archives under registered hooks and validators.         *)
(***************************************************************************)
HookSlots == {"base_hdr", "local_hdr", "central_dir_hdr", "buffer"}

SetDecryptionStep ==
    \E slot \in HookSlots, hook \in CustomHooks \cup {None} :
        Called /\ SetDecryption(slot, hook)

SetSignatureCheckStep ==
    \E f \in CustomValidators \cup {None, "not callable"} :
        Called /\ SetSignatureCheck(f)

LoadStep ==
    \E a \in Archives, b \in BasePaths, p \in Policies : Called /\ AddMrs(a, b, p)

NextLoad ==
    \/ SetDecryptionStep
    \/ SetSignatureCheckStep
    \/ LoadStep

SpecLoad == Init /\ [][NextLoad]_vars

(***************************************************************************)
(* The pure functions, each applied once to an input drawn at the start.   *)
(***************************************************************************)
\* the longest name given to _is_valid_filename
MaxNameLen == 4

ValidateAlphabet == {"C", "o", "N", ".", "\\", "/", "<"}

\* the names the specification of the validator gives as examples, and the
\* reserved names that the alphabet cannot spell
ExampleNames ==
    {   <<"C","O","N",".","t","x","t">>,
        <<"a","<","b",".","t","x","t">>,
        <<"a","SOH">>,
        <<"a",".","b",".","t","x","t">>,
        <<"C","O","M","1","0",".","t","x","t">>,
        <<"c","o","m","^1",".","x">>,
        <<"l","p","t","9">>,
        <<"a","\\","N","U","L",".","t","x","t">>,
        <<"s","/","C","O","N">>,
        <<"a","US","b">>,
        <<"a","DEL">>  }

ValidateInputs == SeqsUpTo(ValidateAlphabet, MaxNameLen) \cup ExampleNames

InitValidate ==
    /\ Fresh
    /\ probe \in {[fn |-> "validate", name |-> n, done |-> FALSE, out |-> FALSE] :
                    n \in ValidateInputs}

\* _is_valid_filename(probe.name)
Validate ==
    /\ ~probe.done
    /\ probe' = [probe EXCEPT !.done = TRUE, !.out = IsValidFilename(probe.name)]
    /\ UNCHANGED <<files, hdr, mem, mempos, decrypt, sigcheck, orig, last, calls, orphans>>

SpecValidate == InitValidate /\ [][Validate]_vars

\* the most entries of a directory given to __is_duplicate
MaxNames == 4

\* the display names of the directories given to __is_duplicate
DupNames ==
    {   <<"a">>,
        <<"a", " ", "(", "2", ")">>,
        <<"A", " ", "(", "3", ")">>,
        <<"a", " ", "(", "5", ")">>,
        <<"b", " ", "(", "2", ")">>  }

InitDup ==
    /\ Fresh
    /\ probe \in {[fn |-> "is_duplicate", name |-> n, names |-> ns, done |-> FALSE,
                   out |-> Absent] : n \in DupNames, ns \in SeqsUpTo(DupNames, MaxNames)}

\* __is_duplicate(probe.name) in a directory whose display names are probe.names
FindDuplicate ==
    /\ ~probe.done
    /\ probe' = [probe EXCEPT !.done = TRUE, !.out = IsDuplicate(probe.name, probe.names)]
    /\ UNCHANGED <<files, hdr, mem, mempos, decrypt, sigcheck, orig, last, calls, orphans>>

SpecDup == InitDup /\ [][FindDuplicate]_vars

\* wall-clock times from the first year of the format to the last
WallClockTimes ==
    [year : {1980, 2000, 2107}, mon : {1, 6, 12}, mday : {1, 15, 28},
     hour : {0, 12, 23}, min : {0, 34, 59}, sec : {0, 57, 59}]

InitTime ==
    /\ Fresh
    /\ probe \in {[fn |-> "dostime", t |-> t, done |-> FALSE, enc |-> NewDosTime,
                   out |-> NewDosTime] : t \in WallClockTimes}

\* the time is packed by set_time and set_date from the struct_time, and the
\* two 16-bit values are unpacked by set_time and set_date from the integers
EncodeDecode ==
    /\ ~probe.done
    /\ probe' = [probe EXCEPT !.done = TRUE,
                              !.enc = DosTime(probe.t),
                              !.out = DosTimeOfInts(DosTime(probe.t).time.value,
                                                    DosTime(probe.t).date.value)]
    /\ UNCHANGED <<files, hdr, mem, mempos, decrypt, sigcheck, orig, last, calls, orphans>>

SpecTime == InitTime /\ [][EncodeDecode]_vars

\* the longest buffer given to the default transforms, single bytes aside
MaxBufLen == 2

\* the bytes of the longer buffers
BufferBytes == {0, 1, 90, 128, 255}

\* every single byte, and the buffers over BufferBytes
BufferInputs == {<<b>> : b \in 0..255} \cup SeqsUpTo(BufferBytes, MaxBufLen)

InitCrypt ==
    /\ Fresh
    /\ probe \in {[fn |-> "crypt", buf |-> b, done |-> FALSE, enc |-> <<>>, dec |-> <<>>,
                   encdec |-> <<>>, decenc |-> <<>>] : b \in BufferInputs}

\* __mrs_default_encrypt and __mrs_default_decrypt of probe.buf over its whole
\* length, and each applied to the output of the other
Crypt ==
    /\ ~probe.done
    /\ probe' = [probe EXCEPT
                    !.done = TRUE,
                    !.enc = DefaultEncrypt(probe.buf, Len(probe.buf)),
                    !.dec = DefaultDecrypt(probe.buf, Len(probe.buf)),
                    !.encdec = DefaultDecrypt(DefaultEncrypt(probe.buf, Len(probe.buf)),
                                              Len(probe.buf)),
                    !.decenc = DefaultEncrypt(DefaultDecrypt(probe.buf, Len(probe.buf)),
                                              Len(probe.buf))]
    /\ UNCHANGED <<files, hdr, mem, mempos, decrypt, sigcheck, orig, last, calls, orphans>>

SpecCrypt == InitCrypt /\ [][Crypt]_vars

(***************************************************************************)
(* Properties.                                                             *)
(***************************************************************************)
\* a call has just been made: the step is one of the calls of the engine
JustCalled == calls' # calls

\* the last call was a successful add_file under policy p that found a duplicate
CollidingAdd(l, p) ==
    l.op = "add_file" /\ l.res = "ok" /\ l.on_dupe = p /\ l.dup # Absent

\* C1: every entry created by add_file reads back, at its index, as the
\* bytes of its source (compressible, stored or zero-length), whatever
\* calls were made on the archive before or after it.
C1_ReadReturnsSource ==
    \A i \in 1..Len(orig) :
        orig[i].by = "add_file"
            => ReadResult(files, hdr, mem, i - 1) = <<"ok", orig[i].content>>

\* the set N of a name against a directory: the numbers (0 when absent) of
\* the entries that share its stem and extension, case-insensitively, and
\* are not an exact match
SuffixesOfOthers(name, names) ==
    {ParseName(names[i]).fnum :
        i \in {j \in 1..Len(names) :
                /\ SameStem(ParseName(name), ParseName(names[j]))
                /\ ParseName(names[j]).fnum # ParseName(name).fnum}}

\* the smallest integer >= 2 that is not in N
SmallestFree(N) ==
    CHOOSE k \in 2..(Cardinality(N) + 2) : k \notin N /\ \A j \in 2..(k - 1) : j \in N

\* C2: when __is_duplicate finds an exact match, the number in the name it
\* suggests is the smallest integer >= 2 that is not in N, for every N
\* (N = {2, 3, 5} gives 4, N = {} gives 2).
C2_SuggestsSmallestFree ==
    (probe.done /\ probe.out # Absent)
        => probe.out[2] = FormatName(ParseName(probe.name).fname,
                                     SmallestFree(SuffixesOfOthers(probe.name, probe.names)),
                                     ParseName(probe.name).fext)

\* C3: under KeepBoth an add_file that finds a collision appends one entry,
\* leaves every existing entry as it was, and stores the new entry under a
\* name that differs, case-insensitively, from the display name of every
\* entry already in the directory.
C3_KeepBothNameIsFree ==
    [][ (JustCalled /\ CollidingAdd(last', KEEP_BOTH))
            => /\ Len(files') = Len(files) + 1
               /\ SubSeq(files', 1, Len(files)) = files
               /\ \A i \in 1..Len(files) :
                    Lower(files[i].filenameuc) # Lower(files'[Len(files')].filenameuc) ]_vars

\* the number of entries a successful add_mrs appended
Appended(l, n) == Cardinality({k \in 1..Len(l.dup) : l.dup[k] >= n})

\* C4: under KeepNew an add_file or add_mrs that finds a collision stores
\* the incoming entry at the index of the exact match, the entry count does
\* not change, no other index changes, and read of that index returns the
\* new content.
C4_KeepNewOverwrites ==
    [][ /\ (JustCalled /\ CollidingAdd(last', KEEP_NEW))
            => /\ last'.index < Len(files)
               /\ Lower(files[last'.index + 1].filenameuc)
                    = Lower(files'[last'.index + 1].filenameuc)
               /\ Len(files') = Len(files)
               /\ hdr'.dir_count = hdr.dir_count
               /\ \A i \in 1..Len(files) : i # last'.index + 1 => files'[i] = files[i]
               /\ ReadResult(files', hdr', mem', last'.index)
                    = <<"ok", orig'[last'.index + 1].content>>
        /\ (JustCalled /\ last'.op = "add_mrs" /\ last'.res = "ok"
                /\ last'.on_dupe = KEEP_NEW)
            => /\ Len(files') = Len(files) + Appended(last', Len(files))
               /\ \A k \in 1..Len(last'.dup) :
                    last'.dup[k] < Len(files)
                        => ReadResult(files', hdr', mem', last'.dup[k])
                            = <<"ok", ForeignContent(ArchiveOf(last'.out).cdir[k])>> ]_vars

\* C5: under KeepOld an add_file whose name collides with an existing entry
\* fails with the duplicate-name error (no add_file under KeepOld succeeds
\* with a name an entry already has), and the failed call leaves the entry
\* count, the entries, the content store and what read returns at every
\* index as they were.
C5_KeepOldRefuses ==
    [][ (JustCalled /\ last'.op = "add_file")
            => /\ last'.res = "ValueError"
                    => /\ files' = files
                       /\ hdr' = hdr
                       /\ mem' = mem
                       /\ \A i \in Indexes :
                            ReadResult(files', hdr', mem', i) = ReadResult(files, hdr, mem, i)
               /\ (last'.res = "ok" /\ last'.on_dupe = KEEP_OLD)
                    => \A i \in 1..Len(files) :
                        Lower(files[i].filenameuc) # Lower(SlashToBackslash(last'.name)) ]_vars

\* an add_file under KeepOld has been refused in an archive that has entries
C5_Refused == last.op = "add_file" /\ last.res = "ValueError" /\ Len(files) > 0

\* the reserved device names, '.' and '..', in lower case
ReservedStems ==
    {<<"c","o","n">>, <<"p","r","n">>, <<"a","u","x">>, <<"n","u","l">>, <<".">>, <<".", ".">>}
    \cup {<<"c","o","m">> \o <<d>> : d \in {Chr(48 + n) : n \in 0..9} \cup {"^1", "^2", "^3"}}
    \cup {<<"l","p","t">> \o <<d>> : d \in {Chr(48 + n) : n \in 0..9} \cup {"^1", "^2", "^3"}}

\* position d of seg holds the dot that starts its extension: the last dot,
\* with no '/' after it, and after some character of the same '/' component
\* that is not a dot (leading dots start no extension)
ExtensionDot(seg, d) ==
    /\ seg[d] = "."
    /\ \A k \in (d + 1)..Len(seg) : seg[k] \notin {".", "/"}
    /\ \E k \in 1..(d - 1) : seg[k] # "." /\ \A m \in k..d : seg[m] # "/"

\* seg with its extension removed
Stem(seg) ==
    IF \E d \in 1..Len(seg) : ExtensionDot(seg, d)
    THEN SubSeq(seg, 1, (CHOOSE d \in 1..Len(seg) : ExtensionDot(seg, d)) - 1)
    ELSE seg

\* name[i..j] is a backslash-separated segment of name
IsSegment(name, i, j) ==
    /\ i = 1 \/ name[i - 1] = "\\"
    /\ j = Len(name) \/ name[j + 1] = "\\"
    /\ \A k \in i..j : name[k] # "\\"

\* the rule by which a name is to be rejected
MustReject(name) ==
    \/ \E k \in 1..Len(name) :
        name[k] \in {"<", ">", ":", "\"", "|", "?", "*"} \/ Ord(name[k]) \in 1..31
    \/ \E i \in 1..Len(name), j \in 1..Len(name) :
        /\ i <= j
        /\ IsSegment(name, i, j)
        /\ Lower(Stem(SubSeq(name, i, j))) \in ReservedStems

\* C6: _is_valid_filename rejects a name if and only if it holds one of
\* < > : " | ? * or a control character 1-31, or some backslash-separated
\* segment, its extension (as os.path.splitext takes it) removed, equals a
\* reserved name case-insensitively; CON.txt, a<b.txt and a name with
\* byte 1 are rejected, a.b.txt and COM10.txt are accepted.
C6_RejectsExactlyReserved ==
    probe.done
        => /\ probe.out = ~MustReject(probe.name)
           /\ probe.name \in {<<"C","O","N",".","t","x","t">>,
                              <<"a","<","b",".","t","x","t">>, <<"a","SOH">>}
                => ~probe.out
           /\ probe.name \in {<<"a",".","b",".","t","x","t">>,
                              <<"C","O","M","1","0",".","t","x","t">>}
                => probe.out

\* CON.txt has been given to the validator and rejected
C6_ReservedRejected ==
    probe.done /\ probe.name = <<"C","O","N",".","t","x","t">> /\ ~probe.out

PassesValidation(sc, where, signature) ==
    \/ DefaultSignatures(where, signature)
    \/ sc # None /\ CallValidator(sc, where, signature)

\* the base, central and local signatures of archive a all pass once
\* decrypted with the hooks d resolves to
AllSignaturesPass(a, d, sc) ==
    /\ PassesValidation(sc, BASE_HDR,
                        ApplyHook(ResolveDecrypt(d).base_hdr, a.base.signature, 4))
    /\ \A i \in 1..Len(a.cdir) :
        /\ PassesValidation(sc, CENTRAL_DIR_HDR,
                            ApplyHook(ResolveDecrypt(d).central_dir_hdr,
                                      a.cdir[i].signature, 4))
        /\ PassesValidation(sc, LOCAL_HDR,
                            ApplyHook(ResolveDecrypt(d).local_hdr,
                                      a.cdir[i].local.signature, 4))

\* the archives whose headers, or whose local headers, were written with a
\* hook that is not the default one
OtherHookArchives == {"plain", "badlocal", "complement"}

\* C8: add_mrs succeeds only if the decrypted base signature and the
\* decrypted central and local signatures of every entry pass validation;
\* a failed add_mrs adds no entry; and an archive written with another
\* hook, loaded with the default hook under a valid base path, fails with
\* NotAMrsFileError or InvalidMrsEncryptionError.
C8_WrongKeyNeverLoads ==
    [][ (JustCalled /\ last'.op = "add_mrs")
            => /\ last'.res = "ok"
                    => AllSignaturesPass(ArchiveOf(last'.out), decrypt, sigcheck)
               /\ ~AllSignaturesPass(ArchiveOf(last'.out), decrypt, sigcheck)
                    => last'.res # "ok"
               /\ last'.res # "ok" => files' = files /\ hdr' = hdr
               /\ (last'.out \in OtherHookArchives /\ decrypt = NewEncryption
                        /\ sigcheck = None)
                    => last'.res \in {"NotAMrsFileError", "InvalidMrsEncryptionError"} ]_vars

\* an archive written without obfuscation has been refused under the
\* default hook
C8_PlainRefused ==
    /\ last.op = "add_mrs" /\ last.out = "plain" /\ last.res = "NotAMrsFileError"
    /\ decrypt = NewEncryption /\ sigcheck = None

\* C9: set_file(i, get_file(i)) with the returned value unmodified leaves
\* every field of entry i, and every other entry, as it was.
C9_SetGetChangesNothing ==
    [][ (JustCalled /\ last'.op = "set_file" /\ last'.res = "ok" /\ last'.name = Absent
            /\ last'.out = <<last'.index>>)
            => files' = files ]_vars

\* C10: decoding the 16-bit pair that encoding a wall-clock time t gave
\* yields the year, month, day, hour and minute of t and the seconds of t
\* rounded down to an even second.
C10_DecodeInvertsEncode ==
    probe.done
        => StructOfDos(probe.out) = [probe.t EXCEPT !.sec = 2 * (probe.t.sec \div 2)]

\* C11: in every reachable state, after any calls of add_file, add_mrs,
\* set_file and read, successful or failed, get_file_count() equals the
\* length of the entry sequence.
C11_CountIsLength == GetFileCount(hdr) = Len(files)

\* a call has failed on an archive that holds two entries
C11_FailedWithTwo == Len(files) = 2 /\ GetFileCount(hdr) = 2 /\ last.res # "ok"

\* the bytes of the store m in the extent (offset, compressed_size) of entry e
ExtentBytes(m, e) == SubSeq(m, e.dh.offset + 1, e.dh.offset + e.dh.compressed_size)

\* the bytes b decoded by the method of entry e
DecodedBy(e, b) == IF e.dh.compression = COMPRESSION_DEFLATE THEN Inflate(b).data ELSE b

\* C12: for every entry of the directory, in every reachable state, the
\* compressed_size bytes at its offset exist in the store and, inflated if
\* the method is Deflate and verbatim if it is Store, give exactly
\* uncompressed_size bytes whose CRC-32 is the crc32 of the entry.
C12_ExtentDecodesToContent ==
    \A i \in 1..Len(files) :
        /\ files[i].dh.offset + files[i].dh.compressed_size <= Len(mem)
        /\ files[i].dh.compression = COMPRESSION_DEFLATE
                => Inflate(ExtentBytes(mem, files[i])).ok
        /\ Len(DecodedBy(files[i], ExtentBytes(mem, files[i]))) = files[i].dh.uncompressed_size
        /\ Crc32(DecodedBy(files[i], ExtentBytes(mem, files[i]))) = files[i].dh.crc32

\* C13: for every entry of the directory, in every reachable state, the
\* local-header copy of the uncompressed size, the compressed size, the
\* CRC-32, the compression method, the filename, its length and the
\* timestamp equals the central-directory copy, after add_file, add_mrs and
\* set_file alike.
C13_LocalMirrorsCentral ==
    \A i \in 1..Len(files) :
        /\ files[i].lh.uncompressed_size = files[i].dh.uncompressed_size
        /\ files[i].lh.compressed_size = files[i].dh.compressed_size
        /\ files[i].lh.crc32 = files[i].dh.crc32
        /\ files[i].lh.compression = files[i].dh.compression
        /\ files[i].lh.filename = files[i].dh.filename
        /\ files[i].lh.filename_length = files[i].dh.filename_length
        /\ files[i].lh.filetime = files[i].dh.filetime

\* C14: read(index), get_file(index) and set_file(index, file) with
\* index >= get_file_count() fail with IndexError and change neither the
\* directory nor the store.
C14_OutOfRangeFails ==
    [][ (JustCalled /\ last'.op \in {"read", "get_file", "set_file"}
            /\ last'.index >= GetFileCount(hdr))
            => /\ last'.res = "IndexError"
               /\ files' = files
               /\ hdr' = hdr
               /\ mem' = mem ]_vars

\* set_file has been refused at the index just past the last entry
C14_SetPastEnd ==
    /\ last.op = "set_file" /\ last.res = "IndexError"
    /\ Len(files) > 0 /\ last.index = GetFileCount(hdr)

\* C15: once add_mrs has opened the foreign file, the handle is released
\* when the call exits, on success and on every failure (base signature,
\* directory size, central or local signature, undecodable or invalid
\* name, corrupt Deflate stream, KeepOld duplicate): no call of add_mrs
\* returns or raises with the handle still open.
C15_HandleReleased == last.op = "add_mrs" => last.fp # "open"

\* the transform the rule of resolution gives at a hook point of the
\* registry d: the hook of the point, else (central directory and local
\* header) the hook of the base header, else the built-in default
RuleOfResolution(d, point) ==
    IF d[point] # None THEN d[point]
    ELSE IF point \in {"central_dir_hdr", "local_hdr"} /\ d.base_hdr # None THEN d.base_hdr
    ELSE "default"

\* C16: at each of the four hook points, the transform add_mrs resolves is
\* the hook registered at the point if any, else, for the central
\* directory and local header points, the hook registered at the base
\* header if any, else the built-in default transform; it is never 'no
\* transform'.
C16_ResolveFollowsRule ==
    [][ (JustCalled /\ last'.op = "add_mrs" /\ last'.fp # "none")
            => \A point \in HookSlots :
                /\ ResolveDecrypt(decrypt)[point] = RuleOfResolution(decrypt, point)
                /\ ResolveDecrypt(decrypt)[point] # None ]_vars

\* bit i (0 the lowest) of the byte b
Bit(b, i) == (b \div (2 ^ i)) % 2

\* the byte whose bit i is f[i]
ByteOfBits(f) ==
    f[0] + 2 * f[1] + 4 * f[2] + 8 * f[3] + 16 * f[4] + 32 * f[5] + 64 * f[6] + 128 * f[7]

\* rotate_right(b, 3) on 8 bits: bit i of the result is bit i + 3 of b
RotateRight3(b) == ByteOfBits([i \in 0..7 |-> Bit(b, (i + 3) % 8)])

\* rotate_left(b, 3) on 8 bits: bit i of the result is bit i - 3 of b
RotateLeft3(b) == ByteOfBits([i \in 0..7 |-> Bit(b, (i + 5) % 8)])

\* NOT b on 8 bits
Not8(b) == ByteOfBits([i \in 0..7 |-> 1 - Bit(b, i)])

\* C17: the default encrypt is the exact inverse of the default decrypt:
\* decrypt(encrypt(b)) = b and encrypt(decrypt(b)) = b for every byte b,
\* with decrypt(b) = NOT(rotate_right(b, 3)) and encrypt(b) =
\* rotate_left(NOT b, 3); on a buffer each output byte is that function of
\* the input byte at the same position, and the length is kept.
C17_EncryptInvertsDecrypt ==
    probe.done
        => /\ probe.encdec = probe.buf
           /\ probe.decenc = probe.buf
           /\ Len(probe.enc) = Len(probe.buf)
           /\ Len(probe.dec) = Len(probe.buf)
           /\ \A i \in 1..Len(probe.buf) :
                /\ probe.dec[i] = Not8(RotateRight3(probe.buf[i]))
                /\ probe.enc[i] = RotateLeft3(Not8(probe.buf[i]))

\* a buffer of two different bytes has been through both transforms
C17_TwoBytesDone ==
    probe.done /\ Len(probe.buf) = 2 /\ probe.buf[1] # probe.buf[2] /\ probe.enc # probe.buf

\* the default magic constants of a header point
DefaultMagics(point) ==
    IF point = BASE_HDR THEN {BASE_MAGIC1, BASE_MAGIC2, BASE_MAGIC3}
    ELSE IF point = LOCAL_HDR THEN {LOCAL_MAGIC1, LOCAL_MAGIC2}
    ELSE {CDIR_MAGIC1, CDIR_MAGIC2}

\* is_valid(point, signature): a default magic of the point, or a validator
\* is registered and returns true
IsValid(sc, point, signature) ==
    \/ signature \in DefaultMagics(point)
    \/ sc # None /\ CallValidator(sc, point, signature)

\* the decrypted signatures of archive a under the registered hooks d
BaseSignature(a, d) == ApplyHook(ResolveDecrypt(d).base_hdr, a.base.signature, 4)

CentralSignature(a, d, i) ==
    ApplyHook(ResolveDecrypt(d).central_dir_hdr, a.cdir[i].signature, 4)

LocalSignature(a, d, i) ==
    ApplyHook(ResolveDecrypt(d).local_hdr, a.cdir[i].local.signature, 4)

\* C18: at the base, central directory and local header points add_mrs
\* accepts a decrypted signature if and only if it is a default magic of
\* that point or a registered validator returns true for it: the base
\* signature is refused (NotAMrsFileError) exactly when it is not valid, a
\* central or local signature of the first record is refused
\* (InvalidMrsEncryptionError) when it is not valid, no signature that is
\* valid is refused, a default magic is accepted whatever the validator
\* returns, and without a validator only the default magics are accepted.
C18_AcceptsIffValid ==
    [][ (JustCalled /\ last'.op = "add_mrs" /\ last'.fp # "none")
            => /\ last'.res = "NotAMrsFileError"
                    <=> ~IsValid(sigcheck, BASE_HDR, BaseSignature(ArchiveOf(last'.out), decrypt))
               /\ ( /\ IsValid(sigcheck, BASE_HDR, BaseSignature(ArchiveOf(last'.out), decrypt))
                    /\ \/ ~IsValid(sigcheck, CENTRAL_DIR_HDR,
                                    CentralSignature(ArchiveOf(last'.out), decrypt, 1))
                       \/ ~IsValid(sigcheck, LOCAL_HDR,
                                    LocalSignature(ArchiveOf(last'.out), decrypt, 1)) )
                    => last'.res = "InvalidMrsEncryptionError"
               /\ last'.res = "InvalidMrsEncryptionError"
                    => \E i \in 1..Len(ArchiveOf(last'.out).cdir) :
                        \/ ~IsValid(sigcheck, CENTRAL_DIR_HDR,
                                    CentralSignature(ArchiveOf(last'.out), decrypt, i))
                        \/ ~IsValid(sigcheck, LOCAL_HDR,
                                    LocalSignature(ArchiveOf(last'.out), decrypt, i))
               /\ ( /\ BaseSignature(ArchiveOf(last'.out), decrypt) \in DefaultMagics(BASE_HDR)
                    /\ \A i \in 1..Len(ArchiveOf(last'.out).cdir) :
                        /\ CentralSignature(ArchiveOf(last'.out), decrypt, i)
                                \in DefaultMagics(CENTRAL_DIR_HDR)
                        /\ LocalSignature(ArchiveOf(last'.out), decrypt, i)
                                \in DefaultMagics(LOCAL_HDR) )
                    => last'.res \notin {"NotAMrsFileError", "InvalidMrsEncryptionError"}
               /\ ( /\ sigcheck = None
                    /\ BaseSignature(ArchiveOf(last'.out), decrypt) \notin DefaultMagics(BASE_HDR) )
                    => last'.res = "NotAMrsFileError" ]_vars

\* an archive of default magics has loaded while the registered validator
\* returns false for every signature
C18_DefaultPassesUnderRefuser ==
    /\ last.op = "add_mrs" /\ last.res = "ok" /\ last.out = "store"
    /\ sigcheck = "accept_none"

\* the store positions (from 1) of the extent (offset, compressed_size) of
\* entry e
ExtentOf(e) == (e.dh.offset + 1)..(e.dh.offset + e.dh.compressed_size)

\* C19: a failed add_file or add_mrs leaves the entry sequence, every
\* entry's fields and the counters as they were before the call; and the
\* bytes that failed merges appended to the store lie in no entry's
\* (offset, compressed_size) extent, then and after any later operation.
C19_FailureLeavesDirectory ==
    [][ /\ (JustCalled /\ last'.op \in {"add_file", "add_mrs"} /\ last'.res # "ok")
            => files' = files /\ hdr' = hdr
        /\ \A k \in 1..Len(files') : ExtentOf(files'[k]) \cap orphans' = {} ]_vars

\* C20: under KEEP_OLD an add_mrs whose archive holds an entry colliding
\* with an existing one fails with ValueError and mutates nothing: the
\* directory and the store are as they were before the call.
C20_KeepOldMergeMutatesNothing ==
    [][ (JustCalled /\ last'.op = "add_mrs" /\ last'.on_dupe = KEEP_OLD
            /\ last'.res = "ValueError")
            => files' = files /\ hdr' = hdr /\ mem' = mem ]_vars

\* the display names add_mrs gives the records of archive a under base_name,
\* before duplicates are resolved
IncomingNames(a, base_name) ==
    [k \in 1..Len(a.cdir) |-> PrefixedName(base_name, DecStr(a.cdir[k].filename)[1])]

\* the directory names after name is inserted under on_dupe, dup being
\* what __is_duplicate returned for it
InsertedName(names, name, dup, on_dupe) ==
    IF dup = Absent THEN Append(names, name)
    ELSE IF on_dupe = KEEP_NEW THEN [names EXCEPT ![dup[1] + 1] = name]
    ELSE Append(names, dup[2])

\* the index (from 0) at which that insertion puts the entry
InsertedIndex(names, dup, on_dupe) ==
    IF dup # Absent /\ on_dupe = KEEP_NEW THEN dup[1] ELSE Len(names)

RECURSIVE InsertedInOrder(_, _, _, _)
\* the direct insertions of the names incoming, in order, under on_dupe into
\* a directory of display names names, each checked against the directory
\* as the insertions before it left it: the outcome, the names and the
\* indexes at (so far) of the entries
InsertedInOrder(names, incoming, on_dupe, at) ==
    IF incoming = <<>> THEN [res |-> "ok", names |-> names, at |-> at]
    ELSE IF IsDuplicate(Head(incoming), names) # Absent /\ on_dupe = KEEP_OLD
    THEN [res |-> "ValueError", names |-> names, at |-> at]
    ELSE InsertedInOrder(InsertedName(names, Head(incoming),
                                      IsDuplicate(Head(incoming), names), on_dupe),
                         Tail(incoming), on_dupe,
                         Append(at, InsertedIndex(names, IsDuplicate(Head(incoming), names),
                                                  on_dupe)))

\* the direct insertions that stand for the add_mrs recorded in l, made on
\* the directory fs
AsInsertions(fs, l) ==
    InsertedInOrder(DisplayNames(fs), IncomingNames(ArchiveOf(l.out), l.name), l.on_dupe, <<>>)

\* C21: add_mrs of an archive with entries e1..en under a policy resolves
\* duplicates as n direct insertions of e1..en in order under that policy
\* would, each entry checked against the directory with the entries of the
\* same archive that precede it: the outcome (success or duplicate-name
\* error), the resulting names, the indexes and the entry count are those
\* of the insertions.
C21_MergeIsSequentialInsertion ==
    [][ (JustCalled /\ last'.op = "add_mrs" /\ last'.res \in {"ok", "ValueError"})
            => /\ last'.res = AsInsertions(files, last').res
               /\ last'.res = "ok"
                    => /\ DisplayNames(files') = AsInsertions(files, last').names
                       /\ last'.dup = AsInsertions(files, last').at
                       /\ GetFileCount(hdr') = Len(AsInsertions(files, last').names) ]_vars

\* the dir_count records of the base header of archive a are not exactly
\* the dir_size bytes of its directory: bytes remain after them, or the
\* bytes run out before them
DirectoryMisfit(a) == a.pad # 0 \/ a.base.dir_count # Len(a.cdir)

\* C22: add_mrs on an archive whose dir_size bytes are not exactly consumed
\* by its dir_count central records (bytes remain, or the buffer runs out
\* first) fails, with a corruption or decryption error and not with the
\* parse failure of the header reader, and commits no entry.
C22_DirectoryFullyConsumed ==
    [][ (JustCalled /\ last'.op = "add_mrs" /\ last'.fp # "none"
            /\ DirectoryMisfit(ArchiveOf(last'.out)))
            => /\ last'.res \notin {"ok", "struct.error"}
               /\ files' = files
               /\ hdr' = hdr ]_vars

\* the chain of fallback over the registry d: the base header point takes
\* its hook or the default, the local header point its hook or what the
\* base header point takes, the central directory point its hook or what
\* the local header point takes
BaseOfChain(d) == IF d.base_hdr # None THEN d.base_hdr ELSE "default"

LocalOfChain(d) == IF d.local_hdr # None THEN d.local_hdr ELSE BaseOfChain(d)

CentralOfChain(d) ==
    IF d.central_dir_hdr # None THEN d.central_dir_hdr ELSE LocalOfChain(d)

\* C23: the hooks add_mrs decrypts with follow the chain of fallback: with
\* no central directory hook but a local header hook registered the
\* central directory is transformed with the local header hook, the local
\* header point falls back to the base header hook, and the default is
\* used only when every narrower hook is absent.
C23_FallbackIsChain ==
    [][ (JustCalled /\ last'.op = "add_mrs" /\ last'.fp # "none")
            => /\ ResolveDecrypt(decrypt).base_hdr = BaseOfChain(decrypt)
               /\ ResolveDecrypt(decrypt).local_hdr = LocalOfChain(decrypt)
               /\ ResolveDecrypt(decrypt).central_dir_hdr = CentralOfChain(decrypt) ]_vars

\* the store m is a prefix of the store n
IsPrefix(m, n) == Len(m) <= Len(n) /\ SubSeq(n, 1, Len(m)) = m

RECURSIVE PayloadBefore(_, _)
\* the number of payload bytes add_mrs copies for the records of archive a
\* before record k
PayloadBefore(a, k) ==
    IF k <= 1 THEN 0
    ELSE PayloadBefore(a, k - 1)
            + Len(Take(a.cdir[k - 1].data, a.cdir[k - 1].compressed_size))

\* C24: the store is append-only: every call leaves the bytes written
\* before it unchanged at their offsets (the store before is a prefix of
\* the store after), and the offset recorded for each added or merged
\* entry with a payload is the end of the store just before that payload
\* was appended, also right after a read and for a KEEP_NEW overwrite.
C24_StoreAppendOnly ==
    [][ /\ IsPrefix(mem, mem')
        /\ (JustCalled /\ last'.op = "add_file" /\ last'.res = "ok"
                /\ files'[last'.index + 1].dh.compressed_size # 0)
            => files'[last'.index + 1].dh.offset = Len(mem)
        /\ (JustCalled /\ last'.op = "add_mrs" /\ last'.res = "ok")
            => \A k \in 1..Len(last'.dup) :
                ( /\ \A j \in (k + 1)..Len(last'.dup) : last'.dup[j] # last'.dup[k]
                  /\ files'[last'.dup[k] + 1].dh.compressed_size # 0 )
                    => files'[last'.dup[k] + 1].dh.offset
                        = Len(mem) + PayloadBefore(ArchiveOf(last'.out), k) ]_vars

\* an entry with a payload has replaced the only entry under KEEP_NEW, at
\* the end of a store that held 3 bytes
C24_OverwriteAppends ==
    /\ last.op = "add_mrs" /\ last.res = "ok" /\ last.on_dupe = KEEP_NEW
    /\ last.dup = <<0>> /\ Len(files) = 1
    /\ files[1].dh.offset = 3 /\ Len(mem) = 6

\* the fields of entry e that describe its payload
PayloadFields(e) ==
    <<e.dh.crc32, e.dh.compressed_size, e.dh.uncompressed_size, e.dh.compression,
      e.dh.offset, e.lh.crc32, e.lh.compressed_size, e.lh.uncompressed_size,
      e.lh.compression>>

\* C25: set_file, get_file and get_files never touch the store and leave
\* the CRC, sizes, method and offset of every entry and the entry count as
\* they were, so read(j) gives the same for every j before and after; a
\* name change through set_file is validated (an invalid name is refused
\* and the entry keeps its name) but is not checked for duplicates:
\* set_file stores valid names only and fails, the refused name aside, for
\* an index out of range only.
C25_MetadataOnly ==
    [][ (JustCalled /\ last'.op \in {"set_file", "set_name", "get_file", "get_files"})
            => /\ mem' = mem
               /\ hdr' = hdr
               /\ Len(files') = Len(files)
               /\ \A j \in 1..Len(files) : PayloadFields(files'[j]) = PayloadFields(files[j])
               /\ \A j \in Indexes :
                    ReadResult(files', hdr', mem', j) = ReadResult(files, hdr, mem, j)
               /\ last'.op = "set_name"
                    => last'.res = "UnicodeError" /\ files' = files
               /\ (last'.op = "set_file" /\ last'.res = "ok" /\ last'.name # Absent)
                    => /\ IsValidFilename(last'.name)
                       /\ \E j \in 1..Len(files) :
                            /\ files'[j].filenameuc = last'.name
                            /\ \A k \in 1..Len(files) : k # j => files'[k] = files[k]
               /\ (last'.op = "set_file" /\ last'.res # "ok")
                    => /\ last'.res = "IndexError"
                       /\ OutOfBound(last'.index, hdr) \/ ~ListHas(files, last'.index)
                       /\ files' = files ]_vars

\* index i (from 1) is the exact-match target of the KEEP_NEW overwrite that
\* the successful call recorded in l made on the directory fs
OverwriteTarget(fs, l, i) ==
    /\ l.res = "ok" /\ l.on_dupe = KEEP_NEW
    /\ \/ /\ l.op = "add_file" /\ l.dup # Absent /\ l.index = i - 1
          /\ ExactMatch(ParseName(SlashToBackslash(l.name)), ParseName(fs[i].filenameuc))
       \/ /\ l.op = "add_mrs"
          /\ \E k \in 1..Len(l.dup) :
                /\ l.dup[k] = i - 1
                /\ ExactMatch(ParseName(IncomingNames(ArchiveOf(l.out), l.name)[k]),
                              ParseName(fs[i].filenameuc))

\* C26: entries are only added or replaced in place: no call removes or
\* reorders entries, the number of entries never decreases, and the entry
\* at index i before a call is at index i after it (set_file changing only
\* its metadata) unless it was the exact-match target of a KEEP_NEW
\* overwrite.
C26_IndexesStable ==
    [][ /\ Len(files') >= Len(files)
        /\ \A i \in 1..Len(files) :
            \/ files'[i] = files[i]
            \/ /\ JustCalled /\ last'.op = "set_file" /\ last'.res = "ok"
               /\ PayloadFields(files'[i]) = PayloadFields(files[i])
               /\ \A k \in 1..Len(files) : k # i => files'[k] = files[k]
            \/ JustCalled /\ OverwriteTarget(files, last', i) ]_vars

\* a KEEP_NEW add_file has replaced one of two entries
C26_ReplacedOneOfTwo ==
    /\ last.op = "add_file" /\ last.res = "ok" /\ last.on_dupe = KEEP_NEW
    /\ last.dup # Absent /\ Len(files) = 2

\* C27: add_mrs on an archive whose base header gives a comment_length
\* other than 0 fails and commits no entry; it does not go on with the
\* header it parsed from the last 22 bytes of the file.
C27_CommentedBaseRefused ==
    [][ (JustCalled /\ last'.op = "add_mrs" /\ last'.fp # "none"
            /\ ArchiveOf(last'.out).base.comment_length # 0)
            => /\ last'.res # "ok"
               /\ files' = files
               /\ hdr' = hdr ]_vars

\* C28: after any sequence of add_file and add_mrs calls on a new archive,
\* under any mix of policies and without renames, no two entries have
\* display names that are equal case-insensitively.
C28_NamesDistinct ==
    \A i \in 1..Len(files) : \A j \in 1..Len(files) :
        i # j => Lower(files[i].filenameuc) # Lower(files[j].filenameuc)

\* the file name fields of entry e agree: both filename_length fields are
\* the byte length of the encoded file name, which is the display name
\* encoded with the codec recorded for the entry
NameFieldsAgree(e) ==
    /\ e.dh.filename = EncodeWith(e.filenameuc, e.filenameenc)
    /\ e.lh.filename = e.dh.filename
    /\ e.dh.filename_length = Len(e.dh.filename)
    /\ e.lh.filename_length = Len(e.lh.filename)

\* C29: in every reachable state, for every entry, the filename_length of
\* the local and of the central header is the byte length of the encoded
\* file name, and the encoded file name is the display name encoded with
\* the codec of the entry; add_file, add_mrs (with or without base path
\* and KEEP_BOTH renaming) and set_file renames preserve this.
C29_NameLengthsAgree == \A i \in 1..Len(files) : NameFieldsAgree(files[i])

\* C30: read, get_file and set_file succeed only for an index with
\* 0 <= index < get_file_count(): for every other index, the negative ones
\* included, the call fails with IndexError, returns nothing and modifies
\* no entry.
C30_OnlyIndexesInRange ==
    [][ (JustCalled /\ last'.op \in {"read", "get_file", "set_file"}
            /\ ~(0 <= last'.index /\ last'.index < GetFileCount(hdr)))
            => /\ last'.res = "IndexError"
               /\ files' = files ]_vars

====
